---- MODULE Spec2Model ----
(***************************************************************************)
(* A model of ghosttype's ensemble scheduler                               *)
(* (internal/model/ensemble/model.go): the three atomically published      *)
(* predictor lists, the registration of heavy predictors by the readiness  *)
(* probes of GenerateModel, the one-shot Predict and the progressive       *)
(* NextPredict with its result channel; of the session driver              *)
(* (internal/tui/session.go) that consumes the progressive calls; and of   *)
(* history ingestion (internal/worker, internal/store/history.go).  Each   *)
(* of the three has its own variables and its own specification: Spec and  *)
(* SpecProgressive, SpecSession, SpecIngest; SpecLock is the load-history  *)
(* command with its lock file, SpecGenerate the construction of the        *)
(* ensemble by GenerateModel, and SpecPredictors the textual predictors.   *)
(* SpecParser and SpecTail are the two loaders of the zsh history file,    *)
(* SpecEmbLearn and SpecEmbPredict the embedding predictor.                *)
(*                                                                         *)
(* Scores and weights are fixed-point numbers: a score and a weight are    *)
(* counted in tenths (0.5 is 5, 2.0 is 20), a weighted score in            *)
(* hundredths (0.5 * 1.0 is 50, 1.0 * 2.0 is 200).                         *)
(*                                                                         *)
(* Time is not counted: the timer of a context.WithTimeout may fire in any *)
(* state in which the context is live.                                     *)
(***************************************************************************)
EXTENDS Integers, Sequences, FiniteSets, TLC

VARIABLES
    LightModels,    \* Ensemble.LightModels (atomic.Value): a sequence of predictors
    HeavyModels,    \* Ensemble.HeavyModels
    Models,         \* Ensemble.Models
    regPc,          \* per heavy predictor: position of its readiness goroutine
    regTmp,         \* per heavy predictor: the list its AddHeavyModel last loaded
    kind,           \* the call in progress: "none", "predict" or "next"
    pc,             \* position of the call's goroutine
    group,          \* the predictor list the current errgroup ranges over
    task,           \* per predictor: state of its task in the current errgroup
    ret,            \* per predictor: the suggestions its Predict returned
    scoreMap,       \* the current score map (values of the keys in seenOrder)
    seenOrder,      \* the keys of scoreMap, in the order they were first added
    deadline,       \* the SuggestionTimeout timer of the call's context has fired
    lightDeadline,  \* the 100 ms timer of lightCtx has fired
    gErr,           \* the errgroup's first error: "nil", "predictor", "deadline"
    resultChan,     \* NextPredict's resultChan: the lists buffered in it
    chanClosed,     \* resultChan has been closed
    emitted,        \* every list sent on resultChan, with the tasks behind it
    received,       \* the lists the consumer has received
    consumerGone,   \* the consumer has stopped receiving
    result,         \* the list Predict returned
    retErr,         \* the error Predict returned
    input,          \* tuiModel.input: the value of the text input, a sequence of pieces
    lastInput,      \* tuiModel.lastInput: the prefix the driver last recorded
    lightResults,   \* tuiModel.lightResults
    heavyResults,   \* tuiModel.heavyResults
    isLoadingHeavy, \* tuiModel.isLoadingHeavy
    items,          \* the texts of the items of tuiModel.list
    selected,       \* tuiModel.selected
    quit,           \* Update has returned tea.Quit
    calls,          \* the fetchProgressiveSuggestionsCmd commands launched, in order
    msgs,           \* the suggestionsMsg values on their way to Update
    origin,         \* the prefixes of the emissions held by the light cache, by
                    \* the heavy cache and by the displayed list
    lastUpdate,     \* what Update did with the last suggestionsMsg: "none" before
                    \* the first, then "discarded" or "stored"
    file,           \* the shell history file: whether it exists, its mtime and
                    \* its lines
    history,        \* the history table: its rows [command, hash, count] by id
    meta,           \* the mtime of the source's row of the meta table (0: no row)
    cycle,          \* per ingestion cycle: its kind, "run" (RunHistoryWorker) or
                    \* "sync" (HistorySyncWorker), the position pc of its
                    \* goroutine, its locals lastMtime, currentMtime (-1: not
                    \* read) and historyEntries, the mtime startMtime the file
                    \* had when it started, the cycles that had ended by then,
                    \* its calls of LoadCommands, SaveHistory and UpdateMetadata,
                    \* and the call whose error it ended with ("nil": none)
    lastSave,       \* the last SaveHistory call: whether a statement failed in it
                    \* and the error it returned
    lockFile,       \* /tmp/ghosttype-history.lock exists
    workerOnce,     \* per ghosttype process: its workerOnce has been done
    proc,           \* per load-history process: the position pc of its RunE,
                    \* whether it opened the lock file (f), its local cleaned
                    \* and the way it ended ("none": it has not)
    runs,           \* the number of load-history processes started
    ch,             \* the readiness channel of GenerateModel: the events sent
                    \* and not yet received
    drained,        \* the readiness events received, in order
    added,          \* the heavy predictors a HeavyModels.Store has published
    built,          \* what GenerateModel returned: "none" before it returns,
                    \* then "ok" (an ensemble) or "error"
    query,          \* the input of the Predict calls on the textual predictors
    answer,         \* the last Predict call: its predictor, list and error
    Transitions,    \* MarkovModel.Transitions
    aliases,        \* the rows of the aliases table
    contextCommands, \* ContextModel.Commands
    learned,        \* the entries MarkovModel.Learn has been given, in order
    zsh,            \* one call of LoadZshHistoryCommands: the file and its locals
    tail,           \* one call of LoadZshHistoryTail: the file and its locals
    emb             \* the embedding predictor: its table and one call in progress

sessVars == <<input, lastInput, lightResults, heavyResults, isLoadingHeavy, items,
              selected, quit, calls, msgs, origin, lastUpdate>>

ingVars == <<file, history, meta, cycle, lastSave>>

lockVars == <<lockFile, workerOnce, proc, runs>>

genVars == <<ch, drained, added, built>>

predVars == <<query, answer, Transitions, aliases, contextCommands, learned>>

parseVars == <<zsh, tail>>

embVars == <<emb>>

vars == <<LightModels, HeavyModels, Models, regPc, regTmp, kind, pc, group, task,
          ret, scoreMap, seenOrder, deadline, lightDeadline, gErr, resultChan,
          chanClosed, emitted, received, consumerGone, result, retErr, sessVars,
          ingVars, lockVars, genVars, predVars, parseVars, embVars>>

regVars == <<HeavyModels, Models, regPc, regTmp>>
chanVars == <<resultChan, chanClosed, emitted, received, consumerGone>>

(***************************************************************************)
(* The predictors and what they may answer.                                *)
(***************************************************************************)
LightPool == {"L1", "L2"}
HeavyPool == {"H1", "H2"}
Predictors == LightPool \cup HeavyPool
AllPredictors == <<"L1", "L2", "H1", "H2">>

Texts == {"light suggestion", "heavy suggestion", "git status"}

Sug(t, s) == [Text |-> t, Score |-> s]

Weight(m) ==
    CASE m = "L1" -> 10
      [] m = "L2" -> 5
      [] m = "H1" -> 20
      [] m = "H2" -> 5

\* The lists a predictor's Predict may return when it returns no error.
Results(m) ==
    CASE m = "L1" -> { <<Sug("light suggestion", 5)>>,
                       <<Sug("git status", 5), Sug("light suggestion", 5)>> }
      [] m = "L2" -> { <<Sug("git status", 0)>>,
                       <<Sug("git status", 10), Sug("git status", 10)>> }
      [] m = "H1" -> { <<Sug("heavy suggestion", 10)>>,
                       <<Sug("git status", 5), Sug("heavy suggestion", 5)>> }
      [] m = "H2" -> { <<Sug("heavy suggestion", 10), Sug("light suggestion", 10)>> }

Range(s) == { s[i] : i \in 1..Len(s) }

EmptyMap == [t \in Texts |-> 0]
NoTasks == [m \in Predictors |-> "none"]
NoRet == [m \in Predictors |-> <<>>]

(***************************************************************************)
(* scoreMap[s.Text] += s.Score * weight, for each s of suggestions in      *)
(* order.  A map is the pair of its values and its keys in first-added     *)
(* order.                                                                  *)
(***************************************************************************)
\* A slip of the accumulation: scoreMap[s.Text] = s.Score * weight.
RECURSIVE AccumulateOverwrite(_, _, _)
AccumulateOverwrite(map, suggestions, weight) ==
    IF suggestions = <<>> THEN map
    ELSE LET s == Head(suggestions)
             next == [ val |-> [map.val EXCEPT ![s.Text] = s.Score * weight],
                       keys |-> IF s.Text \in Range(map.keys) THEN map.keys
                                ELSE Append(map.keys, s.Text) ]
         IN  AccumulateOverwrite(next, Tail(suggestions), weight)

RECURSIVE Accumulate(_, _, _)
Accumulate(map, suggestions, weight) ==
    IF suggestions = <<>> THEN map
    ELSE LET s == Head(suggestions)
             next == [ val |-> [map.val EXCEPT ![s.Text] = @ + s.Score * weight],
                       keys |-> IF s.Text \in Range(map.keys) THEN map.keys
                                ELSE Append(map.keys, s.Text) ]
         IN  Accumulate(next, Tail(suggestions), weight)

\* Every sequence that lists each element of S once.
RECURSIVE Perms(_)
Perms(S) ==
    IF S = {} THEN { <<>> }
    ELSE UNION { { <<x>> \o p : p \in Perms(S \ {x}) } : x \in S }

\* for text, score := range scoreMap: the order is unspecified.
MapRange(val, keys) ==
    { [i \in 1..Len(p) |-> Sug(p[i], val[p[i]])] : p \in Perms(Range(keys)) }

\* sort.Slice(list, func(i, j) { return list[i].Score > list[j].Score }):
\* not stable, so any arrangement of the list that the comparison accepts.
SortSlice(list) ==
    { [i \in 1..Len(list) |-> list[q[i]]] : q \in
        { p \in Perms(1..Len(list)) :
            \A i, j \in 1..Len(list) : i < j => ~(list[p[j]].Score > list[p[i]].Score) } }

\* A slip of the ranking: the sort.Slice call left out.
RankUnsorted(val, keys) == MapRange(val, keys)

\* The lists rankSuggestions may return for a score map.
rankSuggestions(val, keys) == UNION { SortSlice(l) : l \in MapRange(val, keys) }

(***************************************************************************)
(* Construction.                                                           *)
(***************************************************************************)
\* A suggestionsMsg, with the call that produced it and the tier of the
\* predictors its list was computed from.
Msg(prefix, suggestions, isHeavy, err, call, tier) ==
    [prefix |-> prefix, suggestions |-> suggestions, isHeavy |-> isHeavy,
     err |-> err, call |-> call, tier |-> tier]

\* The ingestion cycles: one per start of the program.
Cycles == {"c1", "c2"}

\* The commands a history file may hold once its lines are trimmed.
Commands == { <<"a">>, <<"b">> }

NoSave == [failed |-> FALSE, err |-> "nil"]

\* A cycle that has not started.
NoCycle ==
    [kind |-> "none", pc |-> "idle", lastMtime |-> -1, currentMtime |-> -1,
     startMtime |-> -1, after |-> {}, historyEntries |-> <<>>, calls |-> <<>>,
     err |-> "nil"]

\* No ingestion cycle has started.
CyclesIdle ==
    /\ cycle = [c \in Cycles |-> NoCycle]
    /\ lastSave = NoSave

\* A store just migrated and an empty history file.
IngestIdle ==
    /\ file = [exists |-> TRUE, mtime |-> 1, lines |-> <<>>]
    /\ history = <<>>
    /\ meta = 0
    /\ CyclesIdle

\* GenerateModel has made the readiness channel and nothing is sent.
GenIdle ==
    /\ ch = <<>>
    /\ drained = <<>>
    /\ added = {}
    /\ built = "none"

\* No Predict call on a textual predictor yet, nothing learned, no alias
\* and no project command.
NoAnswer == [model |-> "none", list |-> <<>>, err |-> "nil"]

PredIdle ==
    /\ query = <<>>
    /\ answer = NoAnswer
    /\ Transitions = <<>>
    /\ aliases = <<>>
    /\ contextCommands = <<>>
    /\ learned = <<>>

\* No call of a history loader and none of the embedding predictor.
ParseIdle ==
    /\ zsh = [pc |-> "none"]
    /\ tail = [pc |-> "none"]

EmbIdle == emb = [pc |-> "none"]

\* The ghosttype processes of the user and the load-history processes they
\* spawn.
Parents == { "g1", "g2" }
Procs == { "p1", "p2" }

\* A load-history process that has not been started.
NoProc == [pc |-> "none", f |-> FALSE, cleaned |-> <<>>, exit |-> "none"]

\* No lock file, and no process has called launchWorker.
LockIdle ==
    /\ lockFile = FALSE
    /\ workerOnce = [g \in Parents |-> FALSE]
    /\ proc = [p \in Procs |-> NoProc]
    /\ runs = 0

\* The fields of a tuiModel as NewTuiModel leaves them, the input aside.
SessionIdle ==
    /\ lastInput = <<>>
    /\ lightResults = <<>>
    /\ heavyResults = <<>>
    /\ isLoadingHeavy = FALSE
    /\ items = <<>>
    /\ selected = ""
    /\ quit = FALSE
    /\ calls = <<>>
    /\ msgs = {}
    /\ origin = [light |-> {}, heavy |-> {}, items |-> {}]
    /\ lastUpdate = "none"

\* No readiness probe has answered and no call has been made.
EnsembleIdle ==
    /\ regPc = [m \in HeavyPool |-> "probe"]
    /\ regTmp = [m \in HeavyPool |-> <<>>]
    /\ kind = "none"
    /\ pc = "idle"
    /\ group = <<>>
    /\ task = NoTasks
    /\ ret = NoRet
    /\ scoreMap = EmptyMap
    /\ seenOrder = <<>>
    /\ deadline = FALSE
    /\ lightDeadline = FALSE
    /\ gErr = "nil"
    /\ resultChan = <<>>
    /\ chanClosed = FALSE
    /\ emitted = <<>>
    /\ received = <<>>
    /\ consumerGone = FALSE
    /\ result = <<>>
    /\ retErr = "nil"

Init ==
    /\ \E lightModels \in { <<>>, <<"L1">>, <<"L1", "L2">> } :
          \* NewEnsemble(lightModels)
          /\ LightModels = lightModels
          /\ HeavyModels = <<>>
          /\ Models = lightModels
    /\ regPc = [m \in HeavyPool |-> "probe"]
    /\ regTmp = [m \in HeavyPool |-> <<>>]
    /\ kind = "none"
    /\ pc = "idle"
    /\ group = <<>>
    /\ task = NoTasks
    /\ ret = NoRet
    /\ scoreMap = EmptyMap
    /\ seenOrder = <<>>
    /\ deadline = FALSE
    /\ lightDeadline = FALSE
    /\ gErr = "nil"
    /\ resultChan = <<>>
    /\ chanClosed = FALSE
    /\ emitted = <<>>
    /\ received = <<>>
    /\ consumerGone = FALSE
    /\ result = <<>>
    /\ retErr = "nil"
    /\ input = <<>>
    /\ SessionIdle
    /\ IngestIdle
    /\ LockIdle
    /\ GenIdle
    /\ PredIdle
    /\ ParseIdle
    /\ EmbIdle

callVars == <<kind, pc, group, task, ret, scoreMap, seenOrder, deadline,
              lightDeadline, gErr, result, retErr>>

(***************************************************************************)
(* The readiness goroutine of one heavy predictor (GenerateModel) and the  *)
(* AddHeavyModel it calls: two loads and two stores of atomic values.      *)
(***************************************************************************)
ProbeFails(m) ==
    /\ regPc[m] = "probe"
    /\ regPc' = [regPc EXCEPT ![m] = "failed"]
    /\ UNCHANGED <<sessVars, ingVars, lockVars, genVars, predVars, parseVars, embVars, LightModels, HeavyModels, Models, regTmp, callVars, chanVars>>

ProbeSucceeds(m) ==
    /\ regPc[m] = "probe"
    /\ regPc' = [regPc EXCEPT ![m] = "loadHeavy"]
    /\ UNCHANGED <<sessVars, ingVars, lockVars, genVars, predVars, parseVars, embVars, LightModels, HeavyModels, Models, regTmp, callVars, chanVars>>

AddHeavyLoadHeavy(m) ==
    /\ regPc[m] = "loadHeavy"
    /\ regTmp' = [regTmp EXCEPT ![m] = HeavyModels]
    /\ regPc' = [regPc EXCEPT ![m] = "storeHeavy"]
    /\ UNCHANGED <<sessVars, ingVars, lockVars, genVars, predVars, parseVars, embVars, LightModels, HeavyModels, Models, callVars, chanVars>>

AddHeavyStoreHeavy(m) ==
    /\ regPc[m] = "storeHeavy"
    /\ HeavyModels' = Append(regTmp[m], m)
    /\ regTmp' = [regTmp EXCEPT ![m] = <<>>]
    /\ regPc' = [regPc EXCEPT ![m] = "loadAll"]
    /\ added' = added \cup {m}
    /\ UNCHANGED <<sessVars, ingVars, lockVars, predVars, parseVars, embVars, ch, drained, built, LightModels, Models, callVars, chanVars>>

AddHeavyLoadAll(m) ==
    /\ regPc[m] = "loadAll"
    /\ regTmp' = [regTmp EXCEPT ![m] = Models]
    /\ regPc' = [regPc EXCEPT ![m] = "storeAll"]
    /\ UNCHANGED <<sessVars, ingVars, lockVars, genVars, predVars, parseVars, embVars, LightModels, HeavyModels, Models, callVars, chanVars>>

\* A slip of the registration: the predictor appended in place to the list
\* that was loaded, which a call in flight may be ranging over.
AddHeavyStoreAllInPlace(m) ==
    /\ regPc[m] = "storeAll"
    /\ Models' = Append(regTmp[m], m)
    /\ group' = IF group = regTmp[m] /\ pc = "wait" THEN Append(group, m) ELSE group
    /\ regTmp' = [regTmp EXCEPT ![m] = <<>>]
    /\ regPc' = [regPc EXCEPT ![m] = "ready"]
    /\ UNCHANGED <<sessVars, ingVars, lockVars, genVars, predVars, parseVars, embVars, LightModels, HeavyModels,
                   kind, pc, task, ret, scoreMap, seenOrder, deadline, lightDeadline,
                   gErr, result, retErr, chanVars>>

AddHeavyStoreAll(m) ==
    /\ regPc[m] = "storeAll"
    /\ Models' = Append(regTmp[m], m)
    /\ regTmp' = [regTmp EXCEPT ![m] = <<>>]
    /\ regPc' = [regPc EXCEPT ![m] = "ready"]
    /\ UNCHANGED <<sessVars, ingVars, lockVars, genVars, predVars, parseVars, embVars, LightModels, HeavyModels, callVars, chanVars>>

AddHeavyModel(m) ==
    \/ AddHeavyLoadHeavy(m)
    \/ AddHeavyStoreHeavy(m)
    \/ AddHeavyLoadAll(m)
    \/ AddHeavyStoreAll(m)

(***************************************************************************)
(* One errgroup: its tasks, and what its context reports.                  *)
(***************************************************************************)
Spawn(models) == [m \in Predictors |-> IF m \in Range(models) THEN "spawned" ELSE "none"]

Finished(m) == task[m] \in {"none", "ok", "err", "skipped"}

\* g.Wait() returns: every task of the group has returned.
WaitReturns == \A m \in Predictors : Finished(m)

\* <-ctx.Done() is ready for a task of the current errgroup: a timer of an
\* enclosing context has fired, or the errgroup has cancelled on a first error.
ctxDone ==
    \/ deadline
    \/ pc = "lightWait" /\ lightDeadline
    \/ gErr # "nil"

FirstErr(e) == IF gErr = "nil" THEN e ELSE gErr

\* The task of predictor m reaches its select.
TaskSelect(m) ==
    /\ task[m] = "spawned"
    /\ IF ctxDone
          THEN /\ task' = [task EXCEPT ![m] = "skipped"]
               /\ gErr' = FirstErr("deadline")
          ELSE /\ task' = [task EXCEPT ![m] = "running"]
               /\ UNCHANGED gErr
    /\ UNCHANGED <<sessVars, ingVars, lockVars, genVars, predVars, parseVars, embVars, LightModels, regVars, kind, pc, group, ret, scoreMap, seenOrder,
                   deadline, lightDeadline, result, retErr, chanVars>>

\* model.Predict(input) returns an error: the task returns it.
PredictorFails(m) ==
    /\ task[m] = "running"
    /\ task' = [task EXCEPT ![m] = "err"]
    /\ gErr' = FirstErr("predictor")
    /\ UNCHANGED <<sessVars, ingVars, lockVars, genVars, predVars, parseVars, embVars, LightModels, regVars, kind, pc, group, ret, scoreMap, seenOrder,
                   deadline, lightDeadline, result, retErr, chanVars>>

\* model.Predict(input) returns suggestions: the task adds them under the mutex.
PredictorReturns(m) ==
    /\ task[m] = "running"
    /\ \E suggestions \in Results(m) :
          LET map == Accumulate([val |-> scoreMap, keys |-> seenOrder],
                                suggestions, Weight(m))
          IN  /\ scoreMap' = map.val
              /\ seenOrder' = map.keys
              /\ ret' = [ret EXCEPT ![m] = suggestions]
    /\ task' = [task EXCEPT ![m] = "ok"]
    /\ UNCHANGED <<sessVars, ingVars, lockVars, genVars, predVars, parseVars, embVars, LightModels, regVars, kind, pc, group, deadline, lightDeadline,
                   gErr, result, retErr, chanVars>>

\* The timer of context.WithTimeout(context.Background(), SuggestionTimeout).
DeadlineFires ==
    /\ pc \notin {"idle", "done"}
    /\ ~deadline
    /\ deadline' = TRUE
    /\ UNCHANGED <<sessVars, ingVars, lockVars, genVars, predVars, parseVars, embVars, LightModels, regVars, kind, pc, group, task, ret, scoreMap,
                   seenOrder, lightDeadline, gErr, result, retErr, chanVars>>

\* The timer of context.WithTimeout(ctx, 100*time.Millisecond).
LightDeadlineFires ==
    /\ pc = "lightWait"
    /\ ~lightDeadline
    /\ lightDeadline' = TRUE
    /\ UNCHANGED <<sessVars, ingVars, lockVars, genVars, predVars, parseVars, embVars, LightModels, regVars, kind, pc, group, task, ret, scoreMap,
                   seenOrder, deadline, gErr, result, retErr, chanVars>>

(***************************************************************************)
(* Predict: the one-shot call.                                             *)
(***************************************************************************)
PredictModels == Models

PredictStart ==
    /\ pc \in {"idle", "done"}
    /\ kind' = "predict"
    /\ pc' = "wait"
    /\ group' = PredictModels
    /\ task' = Spawn(PredictModels)
    /\ ret' = NoRet
    /\ scoreMap' = EmptyMap
    /\ seenOrder' = <<>>
    /\ deadline' = FALSE
    /\ lightDeadline' = FALSE
    /\ gErr' = "nil"
    /\ result' = <<>>
    /\ retErr' = "nil"
    /\ resultChan' = <<>>
    /\ chanClosed' = FALSE
    /\ emitted' = <<>>
    /\ received' = <<>>
    /\ consumerGone' = FALSE
    /\ UNCHANGED <<sessVars, ingVars, lockVars, genVars, predVars, parseVars, embVars, LightModels, regVars>>

\* err := g.Wait() and the rest of Predict.
PredictReturn ==
    /\ kind = "predict"
    /\ pc = "wait"
    /\ WaitReturns
    /\ IF gErr # "nil"
          THEN /\ result' = <<>>
               /\ retErr' = gErr
          ELSE /\ \E r \in rankSuggestions(scoreMap, seenOrder) : result' = r
               /\ retErr' = "nil"
    /\ pc' = "done"
    /\ UNCHANGED <<sessVars, ingVars, lockVars, genVars, predVars, parseVars, embVars, LightModels, regVars, kind, group, task, ret, scoreMap, seenOrder,
                   deadline, lightDeadline, gErr, chanVars>>

(***************************************************************************)
(* NextPredict: the progressive call and its goroutine.                    *)
(***************************************************************************)
ChanCap == 2

NextPredict ==
    /\ pc \in {"idle", "done"}
    /\ kind' = "next"
    /\ pc' = "lightCheck"
    /\ group' = <<>>
    /\ task' = NoTasks
    /\ ret' = NoRet
    /\ scoreMap' = EmptyMap
    /\ seenOrder' = <<>>
    /\ deadline' = FALSE
    /\ lightDeadline' = FALSE
    /\ gErr' = "nil"
    /\ result' = <<>>
    /\ retErr' = "nil"
    /\ resultChan' = <<>>
    /\ chanClosed' = FALSE
    /\ emitted' = <<>>
    /\ received' = <<>>
    /\ consumerGone' = FALSE
    /\ UNCHANGED <<sessVars, ingVars, lockVars, genVars, predVars, parseVars, embVars, LightModels, regVars>>

\* A slip of an errgroup run: it goes on with the score map it finds.
StartGroupSameMap(models, next) ==
    /\ pc' = next
    /\ group' = models
    /\ task' = Spawn(models)
    /\ ret' = NoRet
    /\ gErr' = "nil"
    /\ UNCHANGED <<scoreMap, seenOrder>>

\* What one errgroup run starts with: a fresh score map and one task per model.
StartGroup(models, next) ==
    /\ pc' = next
    /\ group' = models
    /\ task' = Spawn(models)
    /\ ret' = NoRet
    /\ scoreMap' = EmptyMap
    /\ seenOrder' = <<>>
    /\ gErr' = "nil"

SkipGroup(next) ==
    /\ pc' = next
    /\ UNCHANGED <<group, task, ret, scoreMap, seenOrder, gErr>>

\* The record of one send on resultChan.
Emission(list) ==
    [ list |-> list,
      group |-> Range(group),
      ok |-> { m \in Predictors : task[m] = "ok" } ]

\* A slip of the channel: made with one slot fewer, make(chan ..., 1).
SendCapOne(list) ==
    /\ Len(resultChan) < ChanCap - 1
    /\ resultChan' = Append(resultChan, list)
    /\ emitted' = Append(emitted, Emission(list))

\* resultChan <- list
Send(list) ==
    /\ Len(resultChan) < ChanCap
    /\ resultChan' = Append(resultChan, list)
    /\ emitted' = Append(emitted, Emission(list))

LightGroup == LightModels

\* if len(LightModels) > 0 { executeLightModels ... up to g.Wait()
executeLightModels ==
    /\ kind = "next"
    /\ pc = "lightCheck"
    /\ IF Len(LightModels) > 0
          THEN StartGroup(LightGroup, "lightWait")
          ELSE SkipGroup("heavyCheck")
    /\ lightDeadline' = FALSE
    /\ UNCHANGED <<sessVars, ingVars, lockVars, genVars, predVars, parseVars, embVars, LightModels, regVars, kind, deadline, result, retErr, chanVars>>

\* g.Wait() of executeLightModels returns; the ranking is sent.
EmitLight ==
    /\ kind = "next"
    /\ pc = "lightWait"
    /\ WaitReturns
    /\ \E r \in rankSuggestions(scoreMap, seenOrder) : Send(r)
    /\ pc' = "heavyCheck"
    /\ UNCHANGED <<sessVars, ingVars, lockVars, genVars, predVars, parseVars, embVars, LightModels, regVars, kind, group, task, ret, scoreMap, seenOrder,
                   deadline, lightDeadline, gErr, result, retErr, chanClosed,
                   received, consumerGone>>

\* A slip of executeHeavyModels: it ranges over e.Models.
HeavyGroupAll == Models

HeavyGroup == HeavyModels

\* A slip of NextPredict: the heavy tier runs without the len(HeavyModels) test.
executeHeavyModelsAlways ==
    /\ kind = "next"
    /\ pc = "heavyCheck"
    /\ StartGroup(HeavyModels, "heavyWait")
    /\ UNCHANGED <<sessVars, ingVars, lockVars, genVars, predVars, parseVars, embVars, LightModels, regVars, kind, deadline, lightDeadline, result,
                   retErr, chanVars>>

\* if len(HeavyModels) > 0 { executeHeavyModels ... up to g.Wait()
executeHeavyModels ==
    /\ kind = "next"
    /\ pc = "heavyCheck"
    /\ IF Len(HeavyModels) > 0
          THEN StartGroup(HeavyGroup, "heavyWait")
          ELSE SkipGroup("closing")
    /\ UNCHANGED <<sessVars, ingVars, lockVars, genVars, predVars, parseVars, embVars, LightModels, regVars, kind, deadline, lightDeadline, result,
                   retErr, chanVars>>

\* g.Wait() of executeHeavyModels returns; the ranking is sent.
EmitHeavy ==
    /\ kind = "next"
    /\ pc = "heavyWait"
    /\ WaitReturns
    /\ \E r \in rankSuggestions(scoreMap, seenOrder) : Send(r)
    /\ pc' = "closing"
    /\ UNCHANGED <<sessVars, ingVars, lockVars, genVars, predVars, parseVars, embVars, LightModels, regVars, kind, group, task, ret, scoreMap, seenOrder,
                   deadline, lightDeadline, gErr, result, retErr, chanClosed,
                   received, consumerGone>>

\* The deferred close(resultChan) and cancel().
CloseStream ==
    /\ kind = "next"
    /\ pc = "closing"
    /\ chanClosed' = TRUE
    /\ pc' = "done"
    /\ UNCHANGED <<sessVars, ingVars, lockVars, genVars, predVars, parseVars, embVars, LightModels, regVars, kind, group, task, ret, scoreMap, seenOrder,
                   deadline, lightDeadline, gErr, result, retErr, resultChan, emitted,
                   received, consumerGone>>

(***************************************************************************)
(* The consumer of the stream.  NextPredict hands it the receive side of   *)
(* resultChan and nothing else.                                            *)
(***************************************************************************)
Receive ==
    /\ kind = "next"
    /\ ~consumerGone
    /\ resultChan # <<>>
    /\ received' = Append(received, Head(resultChan))
    /\ resultChan' = Tail(resultChan)
    /\ UNCHANGED <<sessVars, ingVars, lockVars, genVars, predVars, parseVars, embVars, LightModels, regVars, callVars, chanClosed, emitted, consumerGone>>

\* The consumer stops receiving before the stream is closed.
Abandon ==
    /\ kind = "next"
    /\ ~consumerGone
    /\ ~chanClosed
    /\ consumerGone' = TRUE
    /\ UNCHANGED <<sessVars, ingVars, lockVars, genVars, predVars, parseVars, embVars, LightModels, regVars, callVars, resultChan, chanClosed, emitted,
                   received>>

Next ==
    \/ \E m \in HeavyPool : ProbeFails(m)
    \/ \E m \in HeavyPool : ProbeSucceeds(m)
    \/ \E m \in HeavyPool : AddHeavyModel(m)
    \/ \E m \in Predictors : TaskSelect(m)
    \/ \E m \in Predictors : PredictorFails(m)
    \/ \E m \in Predictors : PredictorReturns(m)
    \/ DeadlineFires
    \/ LightDeadlineFires
    \/ PredictStart
    \/ PredictReturn
    \/ NextPredict
    \/ executeLightModels
    \/ EmitLight
    \/ executeHeavyModels
    \/ EmitHeavy
    \/ CloseStream
    \/ Receive
    \/ Abandon

Spec == Init /\ [][Next]_vars

(***************************************************************************)
(* The progressive call alone, with the scheduling the Go runtime gives    *)
(* its goroutines and under the hypothesis that every predictor that was   *)
(* invoked returns.  The timers and the readiness probes are not fair:     *)
(* they may never fire.                                                    *)
(***************************************************************************)
NextProgressive ==
    \/ \E m \in HeavyPool : ProbeFails(m)
    \/ \E m \in HeavyPool : ProbeSucceeds(m)
    \/ \E m \in HeavyPool : AddHeavyModel(m)
    \/ \E m \in Predictors : TaskSelect(m)
    \/ \E m \in Predictors : PredictorFails(m)
    \/ \E m \in Predictors : PredictorReturns(m)
    \/ DeadlineFires
    \/ LightDeadlineFires
    \/ NextPredict
    \/ executeLightModels
    \/ EmitLight
    \/ executeHeavyModels
    \/ EmitHeavy
    \/ CloseStream

Fairness ==
    /\ WF_vars(executeLightModels)
    /\ WF_vars(EmitLight)
    /\ WF_vars(executeHeavyModels)
    /\ WF_vars(EmitHeavy)
    /\ WF_vars(CloseStream)
    /\ \A m \in Predictors : WF_vars(TaskSelect(m))
    /\ \A m \in Predictors : WF_vars(PredictorFails(m) \/ PredictorReturns(m))

SpecProgressive == Init /\ [][NextProgressive]_vars /\ Fairness

(***************************************************************************)
(* GenerateModel and its readiness channel (internal/suggest.go): one      *)
(* goroutine per enabled heavy predictor probes the model service, calls   *)
(* AddHeavyModel when the probe succeeds and sends one ModelInitEvent; the *)
(* session receives the events.                                            *)
(***************************************************************************)
EventCap == 2

\* GenerateModel has not been called: no ensemble yet, and a history file
\* that may not exist.
InitGenerate ==
    /\ LightModels = <<>>
    /\ HeavyModels = <<>>
    /\ Models = <<>>
    /\ regPc = [m \in HeavyPool |-> "disabled"]
    /\ regTmp = [m \in HeavyPool |-> <<>>]
    /\ kind = "none"
    /\ pc = "idle"
    /\ group = <<>>
    /\ task = NoTasks
    /\ ret = NoRet
    /\ scoreMap = EmptyMap
    /\ seenOrder = <<>>
    /\ deadline = FALSE
    /\ lightDeadline = FALSE
    /\ gErr = "nil"
    /\ resultChan = <<>>
    /\ chanClosed = FALSE
    /\ emitted = <<>>
    /\ received = <<>>
    /\ consumerGone = FALSE
    /\ result = <<>>
    /\ retErr = "nil"
    /\ input = <<>>
    /\ SessionIdle
    /\ \E exists \in BOOLEAN, lines \in { <<>>, << <<"a">> >> } :
          /\ ~exists => lines = <<>>
          /\ file = [exists |-> exists, mtime |-> 1, lines |-> lines]
    /\ history = <<>>
    /\ meta = 0
    /\ CyclesIdle
    /\ LockIdle
    /\ GenIdle
    /\ PredIdle
    /\ ParseIdle
    /\ EmbIdle

\* GenerateModel: historyLoader.LoadTail(100), whose error is returned with
\* no ensemble; otherwise NewEnsemble(lightModels) and one goroutine for each
\* heavy predictor that filterModels enables.
GenerateModel ==
    /\ built = "none"
    /\ \E ok \in { b \in BOOLEAN : b => file.exists } :
          IF ok
          THEN /\ built' = "ok"
               /\ \E lightModels \in { <<>>, <<"L1">> } :
                     /\ LightModels' = lightModels
                     /\ Models' = lightModels
               /\ regPc' \in [HeavyPool -> {"probe", "disabled"}]
          ELSE /\ built' = "error"
               /\ UNCHANGED <<LightModels, Models, regPc>>
    /\ UNCHANGED <<sessVars, ingVars, lockVars, predVars, parseVars, embVars, ch, drained, added, HeavyModels,
                   regTmp, callVars, chanVars>>

\* The event of a goroutine whatever its probe returned: ModelReady.
SendEventReady(m) ==
    /\ regPc[m] \in {"failed", "ready"}
    /\ Len(ch) < EventCap
    /\ ch' = Append(ch, [Name |-> m, Status |-> "ModelReady"])
    /\ regPc' = [regPc EXCEPT ![m] = "done"]
    /\ UNCHANGED <<sessVars, ingVars, lockVars, predVars, parseVars, embVars, drained, added, built, LightModels,
                   HeavyModels, Models, regTmp, callVars, chanVars>>

\* ch <- ModelInitEvent{...}: ModelError after a failed probe, ModelReady
\* after AddHeavyModel has returned; the goroutine ends.
SendEvent(m) ==
    /\ regPc[m] \in {"failed", "ready"}
    /\ Len(ch) < EventCap
    /\ ch' = Append(ch, [Name |-> m,
                         Status |-> IF regPc[m] = "ready" THEN "ModelReady"
                                    ELSE "ModelError"])
    /\ regPc' = [regPc EXCEPT ![m] = "done"]
    /\ UNCHANGED <<sessVars, ingVars, lockVars, predVars, parseVars, embVars, drained, added, built, LightModels,
                   HeavyModels, Models, regTmp, callVars, chanVars>>

\* for ev := range events, in the goroutine of NewTuiModel.
ReceiveEvent ==
    /\ ch # <<>>
    /\ drained' = Append(drained, Head(ch))
    /\ ch' = Tail(ch)
    /\ UNCHANGED <<sessVars, ingVars, lockVars, predVars, parseVars, embVars, added, built, LightModels, regVars,
                   callVars, chanVars>>

NextGenerate ==
    \/ GenerateModel
    \/ \E m \in HeavyPool : ProbeFails(m)
    \/ \E m \in HeavyPool : ProbeSucceeds(m)
    \/ \E m \in HeavyPool : AddHeavyModel(m)
    \/ \E m \in HeavyPool : SendEvent(m)
    \/ ReceiveEvent

SpecGenerate == InitGenerate /\ [][NextGenerate]_vars

(***************************************************************************)
(* The session driver (internal/tui/session.go).  The value of the text    *)
(* input is a sequence of pieces: a typed character is one piece, and so   *)
(* is a text that SetValue puts in it.  The ensemble is seen from the      *)
(* consumer's side: a progressive call yields on its stream one list per   *)
(* non-empty predictor group, each list one that the group can compute.    *)
(***************************************************************************)
MaxInputLen == 2
MaxCalls == 3

Keys == {"a", " "}

\* strings.TrimSpace
RECURSIVE TrimLeft(_)
TrimLeft(s) == IF s # <<>> /\ Head(s) = " " THEN TrimLeft(Tail(s)) ELSE s

RECURSIVE TrimRight(_)
TrimRight(s) ==
    IF s # <<>> /\ s[Len(s)] = " " THEN TrimRight(SubSeq(s, 1, Len(s) - 1)) ELSE s

TrimSpace(s) == TrimRight(TrimLeft(s))

\* The lists a progressive call can send for a group: the ranking of an
\* empty score map (every task failed or was skipped) and, here, one ranking
\* of the weighted answers of a light and of a heavy group.
StreamLists(tier) ==
    IF tier = "light"
    THEN { <<>>, <<Sug("git status", 50), Sug("light suggestion", 50)>> }
    ELSE { <<>>, <<Sug("git status", 100), Sug("heavy suggestion", 40)>> }

\* The groups NextPredict sends a list for, in the order of the sends.
StreamTiers ==
    (IF Len(LightModels) > 0 THEN <<"light">> ELSE <<>>)
        \o (IF Len(HeavyModels) > 0 THEN <<"heavy">> ELSE <<>>)

InitSession ==
    /\ \E lightModels \in { <<>>, <<"L1">> }, heavyModels \in { <<>>, <<"H1">> } :
          /\ LightModels = lightModels
          /\ HeavyModels = heavyModels
          /\ Models = lightModels \o heavyModels
    /\ EnsembleIdle
    /\ \E initialInput \in { <<>>, <<"a">> } : input = initialInput
    /\ SessionIdle
    /\ IngestIdle
    /\ LockIdle
    /\ GenIdle
    /\ PredIdle
    /\ ParseIdle
    /\ EmbIdle

Swap(list, i, j) == [list EXCEPT ![i] = list[j], ![j] = list[i]]

\* for j := i + 1; j < len(rankedList); j++ { if ... { swap } }
RECURSIVE InnerLoop(_, _, _)
InnerLoop(rankedList, i, j) ==
    IF j > Len(rankedList) THEN rankedList
    ELSE InnerLoop(IF rankedList[i].Score < rankedList[j].Score
                   THEN Swap(rankedList, i, j) ELSE rankedList, i, j + 1)

\* for i := 0; i < len(rankedList); i++ { ... }
RECURSIVE OuterLoop(_, _)
OuterLoop(rankedList, i) ==
    IF i > Len(rankedList) THEN rankedList
    ELSE OuterLoop(InnerLoop(rankedList, i, i + 1), i + 1)

LightFactor == 10
HeavyFactor == 15

\* A slip of the merge: the heavy cache weighed like the light one.
MergedMapUnweighted(light, heavy) ==
    Accumulate(Accumulate([val |-> EmptyMap, keys |-> <<>>], light, LightFactor),
               heavy, LightFactor)

\* The score map of mergeSuggestions; a merged score counts thousandths.
MergedMap(light, heavy) ==
    Accumulate(Accumulate([val |-> EmptyMap, keys |-> <<>>], light, LightFactor),
               heavy, HeavyFactor)

\* The lists mergeSuggestions may return for the two caches.
mergeSuggestions(light, heavy) ==
    LET map == MergedMap(light, heavy)
    IN  { OuterLoop(l, 1) : l \in MapRange(map.val, map.keys) }

TextsOf(list) == [i \in 1..Len(list) |-> list[i].Text]

\* A slip of the end of Update: the caches are kept when the prefix changes.
RefreshKeepsCaches(inp, light, heavy, loading, its) ==
    LET prefix == TrimSpace(inp)
    IN  /\ input' = inp
        /\ IF prefix # lastInput
           THEN /\ lastInput' = prefix
                /\ isLoadingHeavy' = FALSE
                /\ lightResults' = light
                /\ heavyResults' = heavy
                /\ IF prefix # <<>>
                   THEN /\ Len(calls) < MaxCalls
                        /\ calls' = Append(calls, [prefix |-> prefix, stage |-> "first"])
                        /\ items' = its
                   ELSE /\ calls' = calls
                        /\ items' = <<>>
           ELSE /\ lastInput' = lastInput
                /\ isLoadingHeavy' = loading
                /\ lightResults' = light
                /\ heavyResults' = heavy
                /\ items' = its
                /\ calls' = calls

\* The end of Update: the prefix check, after the message's own case left
\* the given input, caches, flag and items.
Refresh(inp, light, heavy, loading, its) ==
    LET prefix == TrimSpace(inp)
    IN  /\ input' = inp
        /\ IF prefix # lastInput
           THEN /\ lastInput' = prefix
                /\ isLoadingHeavy' = FALSE
                /\ lightResults' = <<>>
                /\ heavyResults' = <<>>
                /\ IF prefix # <<>>
                   THEN /\ Len(calls) < MaxCalls
                        /\ calls' = Append(calls, [prefix |-> prefix, stage |-> "first"])
                        /\ items' = its
                   ELSE /\ calls' = calls
                        /\ items' = <<>>
           ELSE /\ lastInput' = lastInput
                /\ isLoadingHeavy' = loading
                /\ lightResults' = light
                /\ heavyResults' = heavy
                /\ items' = its
                /\ calls' = calls

ensVars == <<LightModels, HeavyModels, Models, regPc, regTmp, kind, pc, group, task,
             ret, scoreMap, seenOrder, deadline, lightDeadline, gErr, resultChan,
             chanClosed, emitted, received, consumerGone, result, retErr>>

\* Whose emissions the caches and the list hold after the end of Update,
\* org being what the message's own case left: the caches are emptied when
\* the prefix changes, the list only when the new prefix is empty.
Provenance(inp, org) ==
    LET prefix == TrimSpace(inp)
    IN  origin' = IF prefix # lastInput
                  THEN [light |-> {}, heavy |-> {},
                        items |-> IF prefix # <<>> THEN org.items ELSE {}]
                  ELSE org

\* Update(tea.KeyMsg), a character key: the text input takes the character.
KeyRunes(c) ==
    /\ ~quit
    /\ Len(input) < MaxInputLen
    /\ Refresh(Append(input, c), lightResults, heavyResults, isLoadingHeavy, items)
    /\ Provenance(Append(input, c), origin)
    /\ UNCHANGED <<selected, quit, msgs, lastUpdate, ensVars, ingVars, lockVars, genVars, predVars, parseVars, embVars>>

\* Update(tea.KeyMsg), backspace: the text input drops its last character.
KeyBackspace ==
    /\ ~quit
    /\ input # <<>>
    /\ Refresh(SubSeq(input, 1, Len(input) - 1), lightResults, heavyResults,
               isLoadingHeavy, items)
    /\ Provenance(SubSeq(input, 1, Len(input) - 1), origin)
    /\ UNCHANGED <<selected, quit, msgs, lastUpdate, ensVars, ingVars, lockVars, genVars, predVars, parseVars, embVars>>

\* Update(tea.KeyMsg), KeyEnter: the item under the cursor, if there is one,
\* is selected and the program quits.
KeyEnter ==
    /\ ~quit
    /\ IF items # <<>>
       THEN /\ \E i \in 1..Len(items) :
                  /\ selected' = items[i]
                  /\ input' = <<items[i]>>
            /\ quit' = TRUE
            /\ UNCHANGED <<lastInput, lightResults, heavyResults, isLoadingHeavy,
                           items, origin, calls>>
       ELSE /\ Refresh(input, lightResults, heavyResults, isLoadingHeavy, items)
            /\ Provenance(input, origin)
            /\ UNCHANGED <<selected, quit>>
    /\ UNCHANGED <<msgs, lastUpdate, ensVars, ingVars, lockVars, genVars, predVars, parseVars, embVars>>

\* Update(tea.KeyMsg), KeyCtrlC.
KeyCtrlC ==
    /\ ~quit
    /\ quit' = TRUE
    /\ UNCHANGED <<input, lastInput, lightResults, heavyResults, isLoadingHeavy,
                   items, origin, selected, calls, msgs, lastUpdate, ensVars, ingVars, lockVars, genVars, predVars, parseVars, embVars>>

\* Update with a message that changes neither the input nor the caches
\* (tea.WindowSizeMsg, KeyUp, KeyDown, the cursor's blink).
UpdateOther ==
    /\ ~quit
    /\ Refresh(input, lightResults, heavyResults, isLoadingHeavy, items)
    /\ Provenance(input, origin)
    /\ UNCHANGED <<selected, quit, msgs, lastUpdate, ensVars, ingVars, lockVars, genVars, predVars, parseVars, embVars>>

\* The command of call c receives the first list of the stream.
CmdFirstReceive(c) ==
    /\ ~quit
    /\ c \in 1..Len(calls)
    /\ calls[c].stage = "first"
    /\ IF StreamTiers = <<>>
       THEN /\ msgs' = msgs \cup { Msg(calls[c].prefix, <<>>, FALSE,
                                       "no suggestions received", c, "none") }
            /\ calls' = [calls EXCEPT ![c].stage = "done"]
       ELSE /\ \E suggestions \in StreamLists(StreamTiers[1]) :
                  msgs' = msgs \cup { Msg(calls[c].prefix, suggestions, FALSE, "nil",
                                          c, StreamTiers[1]) }
            /\ calls' = [calls EXCEPT ![c].stage = "second"]
    /\ UNCHANGED <<input, lastInput, lightResults, heavyResults, isLoadingHeavy,
                   items, origin, selected, quit, lastUpdate, ensVars, ingVars, lockVars, genVars, predVars, parseVars, embVars>>

\* The second command of call c's batch receives from the stream again.
CmdSecondReceive(c) ==
    /\ ~quit
    /\ c \in 1..Len(calls)
    /\ calls[c].stage = "second"
    /\ IF Len(StreamTiers) = 2
       THEN \E heavySuggestions \in StreamLists(StreamTiers[2]) :
               msgs' = IF Len(heavySuggestions) > 0
                       THEN msgs \cup { Msg(calls[c].prefix, heavySuggestions, TRUE,
                                            "nil", c, StreamTiers[2]) }
                       ELSE msgs
       ELSE msgs' = msgs
    /\ calls' = [calls EXCEPT ![c].stage = "done"]
    /\ UNCHANGED <<input, lastInput, lightResults, heavyResults, isLoadingHeavy,
                   items, origin, selected, quit, lastUpdate, ensVars, ingVars, lockVars, genVars, predVars, parseVars, embVars>>

\* A slip of Update(suggestionsMsg): the test of the message's prefix left
\* out, so that every emission is stored.
UpdateSuggestionsUnchecked(msg) ==
    /\ ~quit
    /\ msg \in msgs
    /\ msgs' = msgs \ {msg}
    /\ lastUpdate' = IF msg.prefix # lastInput THEN "discarded" ELSE "stored"
    /\ LET light == IF msg.isHeavy THEN lightResults ELSE msg.suggestions
           heavy == IF msg.isHeavy THEN msg.suggestions ELSE heavyResults
           from == [light |-> IF msg.isHeavy THEN origin.light ELSE {msg.prefix},
                    heavy |-> IF msg.isHeavy THEN {msg.prefix} ELSE origin.heavy]
       IN  /\ \E mergedSuggestions \in mergeSuggestions(light, heavy) :
                 Refresh(input, light, heavy, ~msg.isHeavy, TextsOf(mergedSuggestions))
           /\ Provenance(input, [light |-> from.light, heavy |-> from.heavy,
                                 items |-> from.light \cup from.heavy])
    /\ UNCHANGED <<selected, quit, ensVars, ingVars, lockVars, genVars, predVars, parseVars, embVars>>

\* Update(suggestionsMsg).
UpdateSuggestions(msg) ==
    /\ ~quit
    /\ msg \in msgs
    /\ msgs' = msgs \ {msg}
    /\ lastUpdate' = IF msg.prefix # lastInput THEN "discarded" ELSE "stored"
    /\ IF msg.prefix # lastInput
       THEN UNCHANGED <<input, lastInput, lightResults, heavyResults, isLoadingHeavy,
                        items, origin, calls>>
       ELSE LET light == IF msg.isHeavy THEN lightResults ELSE msg.suggestions
                heavy == IF msg.isHeavy THEN msg.suggestions ELSE heavyResults
                from == [light |-> IF msg.isHeavy THEN origin.light ELSE {msg.prefix},
                         heavy |-> IF msg.isHeavy THEN {msg.prefix} ELSE origin.heavy]
            IN  /\ \E mergedSuggestions \in mergeSuggestions(light, heavy) :
                      Refresh(input, light, heavy, ~msg.isHeavy,
                              TextsOf(mergedSuggestions))
                /\ Provenance(input, [light |-> from.light, heavy |-> from.heavy,
                                      items |-> from.light \cup from.heavy])
    /\ UNCHANGED <<selected, quit, ensVars, ingVars, lockVars, genVars, predVars, parseVars, embVars>>

NextSession ==
    \/ \E c \in Keys : KeyRunes(c)
    \/ KeyBackspace
    \/ KeyEnter
    \/ KeyCtrlC
    \/ UpdateOther
    \/ \E c \in 1..MaxCalls : CmdFirstReceive(c)
    \/ \E c \in 1..MaxCalls : CmdSecondReceive(c)
    \/ \E msg \in msgs : UpdateSuggestions(msg)

SpecSession == InitSession /\ [][NextSession]_vars

(***************************************************************************)
(* History ingestion (internal/worker, internal/store/history.go).  A      *)
(* line of the history file is, like the input of the session, a sequence  *)
(* of pieces; the piece "xFF" is a byte that is no valid UTF-8.  A cycle   *)
(* is one run of RunHistoryWorker, or of NeedsReload and Sync of a         *)
(* HistorySyncWorker, and every call of the store or of the loader in it   *)
(* is one step, which may fail.  The mtime of the file counts seconds and  *)
(* never goes back.                                                        *)
(***************************************************************************)
MaxMtime == 2
MaxFileLen == 2

\* The lines the shell may append.
Lines == { <<"a">>, <<"b", " ">>, <<"xFF">> }

\* utf8.ValidString
ValidString(s) == \A i \in 1..Len(s) : s[i] # "xFF"

\* The loop of the worker over historyEntries: trimmed, non-empty, valid.
RECURSIVE Cleaned(_)
Cleaned(entries) ==
    IF entries = <<>> THEN <<>>
    ELSE LET str == TrimSpace(Head(entries))
         IN  (IF str # <<>> /\ ValidString(str) THEN <<str>> ELSE <<>>)
                \o Cleaned(Tail(entries))

\* utils.Hash: the hex digest of sha256, by its leading digits.
Hash(cmd) ==
    CASE cmd = <<"a">> -> "ca978112"
      [] cmd = <<"b">> -> "3e23e816"
      [] cmd = <<"s", " ", "g">> -> "c8a281a1"
      [] cmd = <<"G", " ", "s">> -> "edef46b2"
      [] OTHER -> "e3b0c442"

\* The statement without its conflict clause: a row is added whatever the
\* table holds.
UpsertInsertOnly(table, cmd) ==
    Append(table, [command |-> cmd, hash |-> Hash(cmd), count |-> 1])

\* INSERT INTO history(command, hash, count) VALUES (?, ?, 1) ON
\* CONFLICT(hash) DO UPDATE SET count = count + 1: the row of the hash gets
\* one more, and a hash the table does not hold gets a row of count 1.
Upsert(table, cmd) ==
    IF \E r \in 1..Len(table) : table[r].hash = Hash(cmd)
    THEN [r \in 1..Len(table) |->
             IF table[r].hash = Hash(cmd)
             THEN [table[r] EXCEPT !.count = @ + 1]
             ELSE table[r]]
    ELSE Append(table, [command |-> cmd, hash |-> Hash(cmd), count |-> 1])

\* The loop of SaveHistory from entry i on: the statement is executed for
\* each non-empty trimmed entry; the statements of the entries in failed
\* return an error and change nothing.
RECURSIVE Exec(_, _, _, _)
Exec(table, entries, i, failed) ==
    IF i > Len(entries) THEN table
    ELSE LET cmd == TrimSpace(entries[i])
         IN  IF cmd = <<>> \/ i \in failed
             THEN Exec(table, entries, i + 1, failed)
             ELSE Exec(Upsert(table, cmd), entries, i + 1, failed)

\* The store and the file as an earlier run of the program may have left
\* them, and no cycle started.
InitIngest ==
    /\ LightModels = <<>>
    /\ HeavyModels = <<>>
    /\ Models = <<>>
    /\ EnsembleIdle
    /\ input = <<>>
    /\ SessionIdle
    /\ \E lines \in { <<>>, <<<<"a">>>>, <<<<" ">>>> }, ingested, exists \in BOOLEAN :
          /\ ~exists => lines = <<>>
          /\ file = [exists |-> exists, mtime |-> 1, lines |-> lines]
          /\ history = IF ingested
                       THEN Exec(<<>>, Cleaned(lines), 1, {})
                       ELSE <<>>
          /\ meta = IF ingested THEN 1 ELSE 0
    /\ CyclesIdle
    /\ LockIdle
    /\ GenIdle
    /\ PredIdle
    /\ ParseIdle
    /\ EmbIdle

storeVars == <<history, meta, lastSave>>

\* The cycle ends: RunHistoryWorker, NeedsReload or Sync returns and its
\* locals are gone.
Return(c, called, err) ==
    cycle' = [cycle EXCEPT ![c] = [NoCycle EXCEPT !.kind = cycle[c].kind,
                                                  !.after = cycle[c].after,
                                                  !.pc = "done",
                                                  !.calls = called,
                                                  !.err = err]]

\* The shell appends a line to the history file, in the same second as the
\* last write or later.
ModifyFile ==
    /\ Len(file.lines) < MaxFileLen
    /\ \E line \in Lines, mtime \in { file.mtime, file.mtime + 1 } :
          /\ mtime <= MaxMtime
          /\ file' = [exists |-> TRUE, mtime |-> mtime, lines |-> Append(file.lines, line)]
    /\ UNCHANGED <<storeVars, cycle, ensVars, sessVars, lockVars, genVars, predVars, parseVars, embVars>>

\* LaunchWorker or LaunchSyncWorkers starts the goroutine of a cycle; the
\* cycles are numbered in the order in which they start.
StartCycle(c, k) ==
    /\ cycle[c].pc = "idle"
    /\ c = "c2" => cycle["c1"].pc # "idle"
    /\ cycle' = [cycle EXCEPT ![c].kind = k, ![c].pc = "getLast",
                              ![c].startMtime = file.mtime,
                              ![c].after = { d \in Cycles : cycle[d].pc = "done" }]
    /\ UNCHANGED <<file, storeVars, ensVars, sessVars, lockVars, genVars, predVars, parseVars, embVars>>

\* store.GetLastProcessedMtime, first call of RunHistoryWorker and of
\* NeedsReload; NeedsReload answers true when it fails.
GetLastProcessedMtime(c) ==
    /\ cycle[c].pc = "getLast"
    /\ \E ok \in BOOLEAN :
          IF ok
          THEN cycle' = [cycle EXCEPT ![c].lastMtime = meta, ![c].pc = "getCurrent"]
          ELSE IF cycle[c].kind = "run"
               THEN Return(c, cycle[c].calls, "GetLastProcessedMtime")
               ELSE cycle' = [cycle EXCEPT ![c].pc = "load"]
    /\ UNCHANGED <<file, storeVars, ensVars, sessVars, lockVars, genVars, predVars, parseVars, embVars>>

\* loader.GetCurrentMtime and the comparison with the stored mtime; os.Stat
\* fails when the file does not exist.
GetCurrentMtime(c) ==
    /\ cycle[c].pc = "getCurrent"
    /\ \E ok \in { b \in BOOLEAN : b => file.exists } :
          IF ok
          THEN IF file.mtime <= cycle[c].lastMtime
               THEN Return(c, cycle[c].calls, "nil")
               ELSE cycle' = [cycle EXCEPT ![c].currentMtime = file.mtime,
                                           ![c].pc = "load"]
          ELSE Return(c, cycle[c].calls,
                      IF cycle[c].kind = "run" THEN "GetCurrentMtime" ELSE "nil")
    /\ UNCHANGED <<file, storeVars, ensVars, sessVars, lockVars, genVars, predVars, parseVars, embVars>>

\* loader.LoadCommands; os.Open fails when the file does not exist.
LoadCommands(c) ==
    /\ cycle[c].pc = "load"
    /\ \E ok \in { b \in BOOLEAN : b => file.exists } :
          IF ok
          THEN cycle' = [cycle EXCEPT ![c].historyEntries = file.lines,
                                      ![c].calls = Append(@, "load"),
                                      ![c].pc = "save"]
          ELSE Return(c, Append(cycle[c].calls, "load"), "LoadCommands")
    /\ UNCHANGED <<file, storeVars, ensVars, sessVars, lockVars, genVars, predVars, parseVars, embVars>>

\* store.SaveHistory(cleaned): one transaction.  Begin or Prepare may fail;
\* a statement that fails is logged and the loop goes on; Commit may fail,
\* and the deferred Rollback then undoes the statements.
SaveHistory(c) ==
    /\ cycle[c].pc = "save"
    /\ LET entries == Cleaned(cycle[c].historyEntries)
           called == Append(cycle[c].calls, "save")
       IN  \E outcome \in {"beginError", "commitError", "committed"},
              failed \in SUBSET (1..Len(entries)) :
              /\ outcome = "beginError" => failed = {}
              /\ history' = IF outcome = "committed"
                            THEN Exec(history, entries, 1, failed) ELSE history
              /\ lastSave' = [failed |-> failed # {},
                              err |-> IF outcome = "committed" THEN "nil" ELSE "error"]
              /\ IF outcome = "committed"
                 THEN cycle' = [cycle EXCEPT
                                   ![c].calls = called,
                                   ![c].pc = IF cycle[c].kind = "run" THEN "update"
                                             ELSE "reread"]
                 ELSE Return(c, called, "SaveHistory")
    /\ UNCHANGED <<file, meta, ensVars, sessVars, lockVars, genVars, predVars, parseVars, embVars>>

\* Sync reads the mtime of the file again, after SaveHistory.
RereadMtime(c) ==
    /\ cycle[c].pc = "reread"
    /\ \E ok \in { b \in BOOLEAN : b => file.exists } :
          IF ok
          THEN cycle' = [cycle EXCEPT ![c].currentMtime = file.mtime, ![c].pc = "update"]
          ELSE Return(c, cycle[c].calls, "GetCurrentMtime")
    /\ UNCHANGED <<file, storeVars, ensVars, sessVars, lockVars, genVars, predVars, parseVars, embVars>>

\* A slip of the last step: the watermark written is the one the cycle read
\* from the store.
UpdateMetadataStale(c) ==
    /\ cycle[c].pc = "update"
    /\ \E ok \in BOOLEAN :
          /\ meta' = IF ~ok THEN meta
                     ELSE IF cycle[c].lastMtime >= 0 THEN cycle[c].lastMtime ELSE 0
          /\ Return(c, Append(cycle[c].calls, "update"),
                    IF ok THEN "nil" ELSE "UpdateMetadata")
    /\ UNCHANGED <<file, history, lastSave, ensVars, sessVars, lockVars, genVars, predVars, parseVars, embVars>>

\* store.UpdateMetadata(key, path, currentMtime), the cycle's last step.
UpdateMetadata(c) ==
    /\ cycle[c].pc = "update"
    /\ \E ok \in BOOLEAN :
          /\ meta' = IF ok THEN cycle[c].currentMtime ELSE meta
          /\ Return(c, Append(cycle[c].calls, "update"),
                    IF ok THEN "nil" ELSE "UpdateMetadata")
    /\ UNCHANGED <<file, history, lastSave, ensVars, sessVars, lockVars, genVars, predVars, parseVars, embVars>>

NextIngest ==
    \/ ModifyFile
    \/ \E c \in Cycles, k \in {"run", "sync"} : StartCycle(c, k)
    \/ \E c \in Cycles : GetLastProcessedMtime(c)
    \/ \E c \in Cycles : GetCurrentMtime(c)
    \/ \E c \in Cycles : LoadCommands(c)
    \/ \E c \in Cycles : SaveHistory(c)
    \/ \E c \in Cycles : RereadMtime(c)
    \/ \E c \in Cycles : UpdateMetadata(c)

SpecIngest == InitIngest /\ [][NextIngest]_vars

(***************************************************************************)
(* The load-history command (cmd/load_history.go) and the processes that   *)
(* start it (launchWorker of internal/suggest.go).  A ghosttype process    *)
(* spawns at most one detached load-history process; that process creates  *)
(* the lock file exclusively, runs the worker and removes the file in a    *)
(* deferred call.                                                          *)
(***************************************************************************)
MaxRuns == 3

\* The runes at which RunHistoryWorker splits an entry.
Separators == { ";", "&", "|" }

\* strings.FieldsFunc: the maximal runs of pieces that are no separator; cur
\* is the field being read.
RECURSIVE FieldsFunc(_, _)
FieldsFunc(s, cur) ==
    IF s = <<>> THEN (IF cur = <<>> THEN <<>> ELSE <<cur>>)
    ELSE IF Head(s) \in Separators
         THEN (IF cur = <<>> THEN <<>> ELSE <<cur>>) \o FieldsFunc(Tail(s), <<>>)
         ELSE FieldsFunc(Tail(s), Append(cur, Head(s)))

\* The loops of RunHistoryWorker over the entries and their fields: trimmed,
\* non-empty, valid.
RECURSIVE CleanedFields(_)
CleanedFields(entries) ==
    IF entries = <<>> THEN <<>>
    ELSE Cleaned(FieldsFunc(Head(entries), <<>>)) \o CleanedFields(Tail(entries))

\* A store just migrated, a history file the shell has written, and no
\* load-history process.
InitLock ==
    /\ LightModels = <<>>
    /\ HeavyModels = <<>>
    /\ Models = <<>>
    /\ EnsembleIdle
    /\ input = <<>>
    /\ SessionIdle
    /\ \E lines \in { <<>>, << <<"a">> >>, << <<"a", ";", " ", "b">> >> } :
          file = [exists |-> TRUE, mtime |-> 1, lines |-> lines]
    /\ history = <<>>
    /\ meta = 0
    /\ CyclesIdle
    /\ LockIdle
    /\ GenIdle
    /\ PredIdle
    /\ ParseIdle
    /\ EmbIdle

\* The process ends: RunE returns or the process is terminated.
Exit(p, how) == [NoProc EXCEPT !.pc = "exited", !.exit = how]

\* The deferred f.Close and os.Remove(lockFile) of RunE run and the process
\* ends.
Deferred(p, how) ==
    /\ lockFile' = FALSE
    /\ proc' = [proc EXCEPT ![p] = Exit(p, how)]

\* The user starts ghosttype anew: the process's workerOnce is fresh.
NewProcess(g) ==
    /\ workerOnce[g]
    /\ workerOnce' = [workerOnce EXCEPT ![g] = FALSE]
    /\ UNCHANGED <<lockFile, proc, runs, ensVars, genVars, predVars, parseVars, embVars, sessVars, ingVars>>

\* launchWorker: the first call in a process starts load-history as a
\* detached process, unless cmd.Start fails; later calls do nothing.
launchWorker(g) ==
    /\ IF workerOnce[g]
       THEN UNCHANGED <<workerOnce, proc, runs>>
       ELSE /\ runs < MaxRuns
            /\ workerOnce' = [workerOnce EXCEPT ![g] = TRUE]
            /\ \E started \in BOOLEAN :
                  IF started
                  THEN /\ \E p \in Procs :
                             /\ proc[p].pc \in {"none", "exited"}
                             /\ proc' = [proc EXCEPT ![p] = [NoProc EXCEPT !.pc = "open"]]
                       /\ runs' = runs + 1
                  ELSE UNCHANGED <<proc, runs>>
    /\ UNCHANGED <<lockFile, ensVars, genVars, predVars, parseVars, embVars, sessVars, ingVars>>

\* os.OpenFile(lockFile, O_CREATE|O_EXCL): it fails when the file exists and
\* RunE returns nil before any defer; otherwise the file is created.
OpenFile(p) ==
    /\ proc[p].pc = "open"
    /\ IF lockFile
       THEN /\ proc' = [proc EXCEPT ![p] = Exit(p, "notAcquired")]
            /\ UNCHANGED lockFile
       ELSE /\ lockFile' = TRUE
            /\ proc' = [proc EXCEPT ![p].pc = "load", ![p].f = TRUE]
    /\ UNCHANGED <<workerOnce, runs, ensVars, genVars, predVars, parseVars, embVars, sessVars, ingVars>>

\* RunHistoryWorker up to GetDB: LoadZshHistoryCommands and the cleaning of
\* its entries; on its error the worker returns it, RunE logs it and returns.
LoadZshHistoryCommands(p) ==
    /\ proc[p].pc = "load"
    /\ \E ok \in { b \in BOOLEAN : b => file.exists } :
          IF ok
          THEN /\ proc' = [proc EXCEPT ![p].pc = "getDB",
                                       ![p].cleaned = CleanedFields(file.lines)]
               /\ UNCHANGED lockFile
          ELSE Deferred(p, "workerError")
    /\ UNCHANGED <<workerOnce, runs, ensVars, genVars, predVars, parseVars, embVars, sessVars, ingVars>>

\* internal.GetDB: log.Fatalf ends the process by os.Exit(1) when the cache
\* directory or the database cannot be had; deferred calls do not run.
GetDB(p) ==
    /\ proc[p].pc = "getDB"
    /\ \E ok \in BOOLEAN :
          IF ok
          THEN proc' = [proc EXCEPT ![p].pc = "save"]
          ELSE proc' = [proc EXCEPT ![p] = Exit(p, "fatal")]
    /\ UNCHANGED <<lockFile, workerOnce, runs, ensVars, genVars, predVars, parseVars, embVars, sessVars, ingVars>>

\* internal.SaveHistory(db, cleaned), then the return of RunE: whatever the
\* worker returns, RunE returns nil and its deferred calls run.
SaveHistoryDB(p) ==
    /\ proc[p].pc = "save"
    /\ \E outcome \in {"beginError", "commitError", "committed"},
          failed \in SUBSET (1..Len(proc[p].cleaned)) :
          /\ outcome # "committed" => failed = {}
          /\ history' = IF outcome = "committed"
                        THEN Exec(history, proc[p].cleaned, 1, failed)
                        ELSE history
          /\ Deferred(p, IF outcome = "committed" THEN "return" ELSE "workerError")
    /\ UNCHANGED <<workerOnce, runs, file, meta, cycle, lastSave, ensVars, genVars, predVars, parseVars, embVars, sessVars>>

\* A panic in the worker: the deferred calls of RunE run while the goroutine
\* unwinds, then the process ends.
Panic(p) ==
    /\ proc[p].pc \in {"load", "getDB", "save"}
    /\ Deferred(p, "panic")
    /\ UNCHANGED <<workerOnce, runs, ensVars, genVars, predVars, parseVars, embVars, sessVars, ingVars>>

\* The process is killed or the machine goes down: nothing of it runs any
\* more.
Kill(p) ==
    /\ proc[p].pc \in {"open", "load", "getDB", "save"}
    /\ proc' = [proc EXCEPT ![p] = Exit(p, "killed")]
    /\ UNCHANGED <<lockFile, workerOnce, runs, ensVars, genVars, predVars, parseVars, embVars, sessVars, ingVars>>

NextLock ==
    \/ \E g \in Parents : NewProcess(g)
    \/ \E g \in Parents : launchWorker(g)
    \/ \E p \in Procs : OpenFile(p)
    \/ \E p \in Procs : LoadZshHistoryCommands(p)
    \/ \E p \in Procs : GetDB(p)
    \/ \E p \in Procs : SaveHistoryDB(p)
    \/ \E p \in Procs : Panic(p)
    \/ \E p \in Procs : Kill(p)

\* The user keeps starting ghosttype, cmd.Start does not fail for ever, and
\* every process that is not killed goes on running.
FairnessLock ==
    /\ \A g \in Parents :
          /\ WF_vars(NewProcess(g))
          /\ SF_vars(launchWorker(g) /\ runs' = runs + 1)
    /\ \A p \in Procs :
          /\ WF_vars(OpenFile(p))
          /\ WF_vars(LoadZshHistoryCommands(p))
          /\ WF_vars(GetDB(p))
          /\ WF_vars(SaveHistoryDB(p))

SpecLock == InitLock /\ [][NextLock]_vars /\ FairnessLock

(***************************************************************************)
(* The textual predictors (markov, freq, prefix, alias, context), each     *)
(* asked with the same input, and Ensemble.Predict over the five of them   *)
(* as GenerateModel registers them.  A string is the sequence of its       *)
(* runes; a score is a whole number and a weight is in tenths.             *)
(***************************************************************************)
MaxQueryLen == 2
MaxLearn == 3

\* LIMIT 20 of the history queries and LIMIT 10 of the alias query.
RowLimit == 20
AliasLimit == 10

Runes == {"g", "G", "s", " "}

Textual == {"markov", "freq", "prefix", "alias", "context"}

\* The inputs of a Predict call.
Queries == UNION { [1..n -> Runes] : n \in 0..MaxQueryLen }

\* The entries Learn may be given.
Corpus == { <<"g", " ", "s">>, <<"g", " ", "g">>, <<"s", " ", "g">> }

\* The commands an ingestion has saved, the aliases of the shell
\* configuration and the commands of the project directory.
StoredEntries == << <<"s", " ", "g">>, <<"s", " ", "g">>, <<"G", " ", "s">> >>

AliasRows ==
    << [name |-> <<"g", "s">>, cmd |-> <<"s", " ", "g">>, updated_at |-> 1],
       [name |-> <<"s">>, cmd |-> <<"G", " ", "s">>, updated_at |-> 2] >>

ProjectCommands == << <<"g", " ", "s">>, <<"s">> >>

\* strings.Fields: the maximal runs of runes that are no white space; cur is
\* the field being read.
RECURSIVE FieldsFrom(_, _)
FieldsFrom(s, cur) ==
    IF s = <<>> THEN (IF cur = <<>> THEN <<>> ELSE <<cur>>)
    ELSE IF Head(s) = " "
         THEN (IF cur = <<>> THEN <<>> ELSE <<cur>>) \o FieldsFrom(Tail(s), <<>>)
         ELSE FieldsFrom(Tail(s), Append(cur, Head(s)))

Fields(s) == FieldsFrom(s, <<>>)

\* strings.HasPrefix
HasPrefix(s, prefix) ==
    Len(prefix) <= Len(s) /\ SubSeq(s, 1, Len(prefix)) = prefix

\* The case folding SQLite applies to ASCII letters, in LIKE and in the
\* tokenizer of the full-text index.
Fold(r) == IF r = "G" THEN "g" ELSE r

\* X LIKE pattern: % matches any run of runes, _ any one rune, and any other
\* rune matches itself whatever its case.
RECURSIVE Like(_, _)
Like(pattern, text) ==
    IF pattern = <<>> THEN text = <<>>
    ELSE IF Head(pattern) = "%"
         THEN \E k \in 0..Len(text) :
                 Like(Tail(pattern), SubSeq(text, k + 1, Len(text)))
         ELSE /\ text # <<>>
              /\ Head(pattern) = "_" \/ Fold(Head(pattern)) = Fold(Head(text))
              /\ Like(Tail(pattern), Tail(text))

\* The tokens the full-text index holds for a text, and those of a query:
\* the runs between white space, folded.
Tokenize(text) ==
    [i \in 1..Len(Fields(text)) |->
        [j \in 1..Len(Fields(text)[i]) |-> Fold(Fields(text)[i][j])]]

\* command MATCH input || '*', for an input that has a token: each token
\* but the last is a token of the command, and the last is the beginning of
\* a token of the command, wherever that token stands.
Match(inp, command) ==
    LET q == Tokenize(inp)
        doc == Range(Tokenize(command))
    IN  /\ \A i \in 1..(Len(q) - 1) : q[i] \in doc
        /\ \E t \in doc : HasPrefix(t, q[Len(q)])

\* LIMIT n
Limit(list, n) == SubSeq(list, 1, IF Len(list) < n THEN Len(list) ELSE n)

\* db.Query returned an error.
QueryFailed == [list |-> <<>>, err |-> "store"]

\* PrefixModel.Predict: the answers it may give.  ORDER BY count DESC leaves
\* the order of rows of equal count open.
PrefixPredict(inp, table) ==
    LET rows == SelectSeq(table, LAMBDA r : Like(inp \o <<"%">>, r.command))
        results == [i \in 1..Len(rows) |-> Sug(rows[i].command, rows[i].count)]
    IN  { [list |-> Limit(l, RowLimit), err |-> "nil"] : l \in SortSlice(results) }
            \cup { QueryFailed }

\* FreqModel.Predict.  An input without a token makes the query the lone
\* '*', which the full-text index rejects as a syntax error.
FreqPredict(inp, table) ==
    IF Tokenize(inp) = <<>>
    THEN { [list |-> <<>>, err |-> "fts5: syntax error"] }
    ELSE LET rows == SelectSeq(table, LAMBDA r : Match(inp, r.command))
             results == [i \in 1..Len(rows) |-> Sug(rows[i].command, rows[i].count)]
         IN  { [list |-> Limit(l, RowLimit), err |-> "nil"] : l \in SortSlice(results) }
                 \cup { QueryFailed }

\* SQLAliasStore.QueryAliases: the statement has two parameters and Query is
\* given one argument, so the second parameter is NULL and cmd LIKE NULL
\* selects no row.
Param(args, k) == IF k <= Len(args) THEN args[k] ELSE "NULL"

LikeParam(p, text) == p # "NULL" /\ Like(p, text)

QueryAliases(inp, table) ==
    LET args == << inp \o <<"%">> >>
        rows == SelectSeq(table, LAMBDA r : \/ LikeParam(Param(args, 1), r.name)
                                            \/ LikeParam(Param(args, 2), r.cmd))
        byDate == [i \in 1..Len(rows) |->
                      [Name |-> rows[i].name, Cmd |-> rows[i].cmd,
                       Score |-> rows[i].updated_at]]
    IN  { Limit(l, AliasLimit) : l \in SortSlice(byDate) }

\* AliasModel.Predict: the name of each entry, with score 1.
AliasPredict(inp, table) ==
    { [list |-> [i \in 1..Len(entries) |-> Sug(entries[i].Name, 1)], err |-> "nil"] :
        entries \in QueryAliases(inp, table) } \cup { QueryFailed }

\* ContextModel.Predict: the commands that have the input as their prefix.
ContextPredict(inp, cmds) ==
    LET out == SelectSeq(cmds, LAMBDA cmd : HasPrefix(cmd, inp))
    IN  { [list |-> [i \in 1..Len(out) |-> Sug(out[i], 1)], err |-> "nil"] }

\* A slip of the count: m.Transitions[from][to] = 1.
IncrementOnce(T, from, to) ==
    IF from \in DOMAIN T
    THEN [T EXCEPT ![from] = IF to \in DOMAIN T[from]
                             THEN [T[from] EXCEPT ![to] = 1]
                             ELSE T[from] @@ (to :> 1)]
    ELSE T @@ (from :> (to :> 1))

\* m.Transitions[from][to]++
Increment(T, from, to) ==
    IF from \in DOMAIN T
    THEN LET row == T[from]
         IN  [T EXCEPT ![from] = IF to \in DOMAIN row
                                 THEN [row EXCEPT ![to] = @ + 1]
                                 ELSE row @@ (to :> 1)]
    ELSE T @@ (from :> (to :> 1))

\* The inner loop of MarkovModel.Learn from token i on.
RECURSIVE LearnTokens(_, _, _)
LearnTokens(T, tokens, i) ==
    IF i > Len(tokens) - 1 THEN T
    ELSE LearnTokens(Increment(T, tokens[i], tokens[i + 1]), tokens, i + 1)

\* MarkovModel.Learn
RECURSIVE MarkovLearn(_, _)
MarkovLearn(T, entries) ==
    IF entries = <<>> THEN T
    ELSE MarkovLearn(LearnTokens(T, Fields(Head(entries)), 1), Tail(entries))

\* MarkovModel.Predict: an error for an input without a token; nothing for
\* a last token that was never followed; otherwise one suggestion for each
\* follower, the map ranged over in any order and then sorted.
MarkovPredict(inp, T) ==
    LET tokens == Fields(inp)
    IN  IF Len(tokens) = 0
        THEN { [list |-> <<>>, err |-> "inp is empty or contains only whitespace"] }
        ELSE LET last == tokens[Len(tokens)]
             IN  IF last \notin DOMAIN T
                 THEN { [list |-> <<>>, err |-> "nil"] }
                 ELSE LET nextMap == T[last]
                          pairs == { [i \in 1..Len(p) |-> Sug(p[i], nextMap[p[i]])] :
                                       p \in Perms(DOMAIN nextMap) }
                      IN  { [list |-> [i \in 1..Len(l) |->
                                          Sug(TrimSpace(inp) \o <<" ">> \o l[i].Text,
                                              l[i].Score)],
                             err |-> "nil"] :
                              l \in UNION { SortSlice(q) : q \in pairs } }

\* Weight() of each textual predictor, in tenths.
TextualWeight(m) ==
    CASE m = "markov" -> 4
      [] m = "freq" -> 5
      [] m = "prefix" -> 8
      [] m = "alias" -> 8
      [] m = "context" -> 10

\* What a predictor may answer to the input in the current state.
Answers(m, inp) ==
    CASE m = "markov" -> MarkovPredict(inp, Transitions)
      [] m = "freq" -> FreqPredict(inp, history)
      [] m = "prefix" -> PrefixPredict(inp, history)
      [] m = "alias" -> AliasPredict(inp, aliases)
      [] m = "context" -> ContextPredict(inp, contextCommands)

\* scoreMap[s.Text] += s.Score * weight over a list, for the text t.
RECURSIVE ScoreIn(_, _, _)
ScoreIn(t, suggestions, weight) ==
    IF suggestions = <<>> THEN 0
    ELSE (IF Head(suggestions).Text = t THEN Head(suggestions).Score * weight ELSE 0)
         + ScoreIn(t, Tail(suggestions), weight)

RECURSIVE ScoreOver(_, _, _)
ScoreOver(t, o, ms) ==
    IF ms = {} THEN 0
    ELSE LET m == CHOOSE n \in ms : TRUE
         IN  ScoreIn(t, o[m].list, TextualWeight(m)) + ScoreOver(t, o, ms \ {m})

\* Ensemble.Predict over the five predictors, o being what each of them
\* answered: the error of one of them if any returned an error, otherwise
\* the score map ranged over in any order and sorted.
PredictOutcomes(o) ==
    IF \E m \in Textual : o[m].err # "nil"
    THEN { [list |-> <<>>, err |-> o[m].err] : m \in { n \in Textual : o[n].err # "nil" } }
    ELSE LET texts == UNION { { o[m].list[i].Text : i \in 1..Len(o[m].list) } : m \in Textual }
             ranged == { [i \in 1..Len(p) |-> Sug(p[i], ScoreOver(p[i], o, Textual))] :
                           p \in Perms(texts) }
         IN  { [list |-> l, err |-> "nil"] : l \in UNION { SortSlice(r) : r \in ranged } }

\* A store as ingestion may have left it, the aliases and the project
\* commands that may be there, a Markov predictor just made, and the input
\* the user has typed.
InitPredictors ==
    /\ LightModels = <<>>
    /\ HeavyModels = <<>>
    /\ Models = <<>>
    /\ EnsembleIdle
    /\ input = <<>>
    /\ SessionIdle
    /\ file = [exists |-> TRUE, mtime |-> 1, lines |-> <<>>]
    /\ history \in { <<>>, Exec(<<>>, StoredEntries, 1, {}) }
    /\ meta = 0
    /\ CyclesIdle
    /\ LockIdle
    /\ GenIdle
    /\ ParseIdle
    /\ EmbIdle
    /\ query \in Queries
    /\ answer = NoAnswer
    /\ Transitions = <<>>
    /\ aliases \in { <<>>, AliasRows }
    /\ contextCommands \in { <<>>, ProjectCommands }
    /\ learned = <<>>

notPred == <<ensVars, sessVars, ingVars, lockVars, genVars, parseVars, embVars>>

\* m.Learn(entries), for a list of one or two entries.
Learn(entries) ==
    /\ Len(learned) + Len(entries) <= MaxLearn
    /\ Transitions' = MarkovLearn(Transitions, entries)
    /\ learned' = learned \o entries
    /\ UNCHANGED <<query, answer, aliases, contextCommands, notPred>>

\* model.Predict(input) on one predictor.
PredictorPredict(m) ==
    /\ \E o \in Answers(m, query) :
          answer' = [model |-> m, list |-> o.list, err |-> o.err]
    /\ UNCHANGED <<query, Transitions, aliases, contextCommands, learned, notPred>>

\* Ensemble.Predict(input) with the five predictors in Models.
EnsemblePredict ==
    /\ \E a \in Answers("markov", query), b \in Answers("freq", query),
          c \in Answers("prefix", query), d \in Answers("alias", query),
          e \in Answers("context", query) :
          \E r \in PredictOutcomes([markov |-> a, freq |-> b, prefix |-> c,
                                    alias |-> d, context |-> e]) :
             answer' = [model |-> "ensemble", list |-> r.list, err |-> r.err]
    /\ UNCHANGED <<query, Transitions, aliases, contextCommands, learned, notPred>>

NextPredictors ==
    \/ \E entries \in { <<e>> : e \in Corpus } : Learn(entries)
    \/ \E m \in Textual : PredictorPredict(m)
    \/ EnsemblePredict

SpecPredictors == InitPredictors /\ [][NextPredictors]_vars

(***************************************************************************)
(* The loaders of the zsh history file (LoadZshHistoryCommands and         *)
(* LoadZshHistoryTail).  A file is the sequence of its lines and a line    *)
(* the sequence of its runes.                                              *)
(***************************************************************************)
MaxLines == 3

\* The lines a history file may hold: blank and white lines, commands,
\* lines that end in a backslash, and lines with the EXTENDED_HISTORY prefix.
ZshLines ==
    { <<>>, <<" ">>, <<"a">>, <<" ", "b">>, <<"a", "\\">>, <<"a", " ", "\\">>,
      <<"\\">>, <<":", " ", ";", "b">>, <<":", " ", ";", "b", "\\">>,
      <<":", " ", ";">> }

ZshFiles == UNION { [1..n -> ZshLines] : n \in 0..MaxLines }

\* strings.HasSuffix, strings.TrimSuffix, strings.Contains and strings.Index
\* (the position of the first r, counted from 1, or 0).
HasSuffix(s, suffix) ==
    Len(suffix) <= Len(s) /\ SubSeq(s, Len(s) - Len(suffix) + 1, Len(s)) = suffix

TrimSuffix(s, suffix) ==
    IF HasSuffix(s, suffix) THEN SubSeq(s, 1, Len(s) - Len(suffix)) ELSE s

Contains(s, r) == \E i \in 1..Len(s) : s[i] = r

Index(s, r) ==
    IF Contains(s, r) THEN CHOOSE i \in 1..Len(s) : s[i] = r /\ \A j \in 1..(i - 1) : s[j] # r
    ELSE 0

\* if current.Len() > 0 { commands = append(commands, TrimSpace(current));
\* current.Reset() }
Flush(st) ==
    IF Len(st.current) > 0
    THEN [commands |-> Append(st.commands, TrimSpace(st.current)), current |-> <<>>]
    ELSE st

\* A slip of the end of the parser: what is pending at the end of the file
\* is dropped.
NoFinalFlush(st) == [commands |-> st.commands, current |-> <<>>]

\* The final flush after the loop.
FinalFlush(st) == Flush(st)

\* One turn of the scanner's loop, for the commands and the builder st.
ScanLine(st, line) ==
    IF TrimSpace(line) = <<>> THEN Flush(st)
    ELSE LET extended == HasPrefix(line, <<":", " ">>) /\ Contains(line, ";")
             flushed == IF extended THEN Flush(st) ELSE st
             idx == Index(line, ";")
             body == IF extended /\ idx < Len(line)
                     THEN SubSeq(line, idx + 1, Len(line)) ELSE line
         IN  IF HasSuffix(body, <<"\\">>)
             THEN [commands |-> flushed.commands,
                   current |-> flushed.current
                                  \o TrimSpace(TrimSuffix(body, <<"\\">>)) \o <<" ">>]
             ELSE [commands |-> Append(flushed.commands,
                                       TrimSpace(flushed.current \o body)),
                   current |-> <<>>]

\* A history file as the shell may have left it and a call of
\* LoadZshHistoryCommands about to open it.
InitParser ==
    /\ LightModels = <<>>
    /\ HeavyModels = <<>>
    /\ Models = <<>>
    /\ EnsembleIdle
    /\ input = <<>>
    /\ SessionIdle
    /\ IngestIdle
    /\ LockIdle
    /\ GenIdle
    /\ PredIdle
    /\ EmbIdle
    /\ tail = [pc |-> "none"]
    /\ \E lines \in ZshFiles :
          zsh = [pc |-> "open", lines |-> lines, pos |-> 0, commands |-> <<>>,
                 current |-> <<>>, err |-> "nil"]

notParse == <<ensVars, sessVars, ingVars, lockVars, genVars, predVars, embVars>>

\* os.Open(path)
ZshOpen ==
    /\ zsh.pc = "open"
    /\ \E ok \in BOOLEAN :
          zsh' = IF ok THEN [zsh EXCEPT !.pc = "scan"]
                 ELSE [zsh EXCEPT !.pc = "done", !.err = "open"]
    /\ UNCHANGED <<tail, notParse>>

\* for scanner.Scan() { ... }: one line.
ZshScan ==
    /\ zsh.pc = "scan"
    /\ zsh.pos < Len(zsh.lines)
    /\ LET st == ScanLine([commands |-> zsh.commands, current |-> zsh.current],
                          zsh.lines[zsh.pos + 1])
       IN  zsh' = [zsh EXCEPT !.pos = @ + 1, !.commands = st.commands,
                              !.current = st.current]
    /\ UNCHANGED <<tail, notParse>>

\* The scanner is at the end of the file: the final flush, and the commands
\* are returned.
ZshReturn ==
    /\ zsh.pc = "scan"
    /\ zsh.pos = Len(zsh.lines)
    /\ LET st == FinalFlush([commands |-> zsh.commands, current |-> zsh.current])
       IN  zsh' = [zsh EXCEPT !.pc = "done", !.commands = st.commands,
                              !.current = st.current]
    /\ UNCHANGED <<tail, notParse>>

NextParser ==
    \/ ZshOpen
    \/ ZshScan
    \/ ZshReturn

SpecParser == InitParser /\ [][NextParser]_vars

(***************************************************************************)
(* LoadZshHistoryTail: the last maxLines commands of the history file,     *)
(* read backward block by block.  Here the file is the sequence of its     *)
(* bytes, so that a block boundary may fall anywhere in a line.            *)
(***************************************************************************)
\* readBlockSize is 4096 in the source; the files of the model are a few
\* bytes long and the block is scaled down with them.
readBlockSize == 2

MaxTailLines == 3

MaxTail == 3

\* The lines of the files read backward: two commands of different
\* lengths, an empty line, and a record of the extended format.
TailLines == { <<"a">>, <<"b", "b", "b">>, <<>>, <<":", " ", ";", "c">> }

\* The bytes of a file whose lines are ls, each ended by a newline.
RECURSIVE FileBytes(_)
FileBytes(ls) ==
    IF ls = <<>> THEN <<>> ELSE Head(ls) \o <<"\n">> \o FileBytes(Tail(ls))

TailFiles == { FileBytes(ls) : ls \in UNION { [1..n -> TailLines] : n \in 0..MaxTailLines } }

\* bufio.Scanner with ScanLines over buf: the text between newlines, and
\* what follows the last newline when it is not empty.
RECURSIVE ScanLines(_)
ScanLines(buf) ==
    IF buf = <<>> THEN <<>>
    ELSE IF Contains(buf, "\n")
         THEN <<SubSeq(buf, 1, Index(buf, "\n") - 1)>>
                 \o ScanLines(SubSeq(buf, Index(buf, "\n") + 1, Len(buf)))
         ELSE <<buf>>

\* cleanZshLine
cleanZshLine(l) ==
    LET line == TrimSpace(l)
    IN  IF HasPrefix(line, <<":", " ">>)
        THEN IF Contains(line, ";")
             THEN TrimSpace(SubSeq(line, Index(line, ";") + 1, Len(line)))
             ELSE <<>>
        ELSE line

\* for i := len(blockLines) - 1; i > 0; i-- { ... }: the lines of the block
\* from the last to the second, cleaned, the empty ones left out, until
\* maxLines are held.  (i counts from 1 here, so the loop ends at 2.)
RECURSIVE TakeLines(_, _, _, _)
TakeLines(blockLines, i, lines, maxLines) ==
    IF i < 2 THEN lines
    ELSE LET line == cleanZshLine(blockLines[i])
             held == IF line # <<>> THEN Append(lines, line) ELSE lines
         IN  IF Len(held) >= maxLines THEN held
             ELSE TakeLines(blockLines, i - 1, held, maxLines)

\* The loop that restores the chronological order.
RECURSIVE ReverseLines(_)
ReverseLines(lines) ==
    IF lines = <<>> THEN <<>>
    ELSE Append(ReverseLines(Tail(lines)), Head(lines))

\* A history file and a call LoadZshHistoryTail(path, maxLines) about to
\* open it.
InitTail ==
    /\ LightModels = <<>>
    /\ HeavyModels = <<>>
    /\ Models = <<>>
    /\ EnsembleIdle
    /\ input = <<>>
    /\ SessionIdle
    /\ IngestIdle
    /\ LockIdle
    /\ GenIdle
    /\ PredIdle
    /\ EmbIdle
    /\ zsh = [pc |-> "none"]
    /\ \E bytes \in TailFiles, maxLines \in 1..MaxTail :
          tail = [pc |-> "open", file |-> bytes, maxLines |-> maxLines,
                  offset |-> 0, leftover |-> <<>>, lines |-> <<>>,
                  err |-> "nil"]

\* os.Open(path) and file.Stat(): offset starts at the size of the file.
TailOpen ==
    /\ tail.pc = "open"
    /\ \E ok \in BOOLEAN :
          tail' = IF ok THEN [tail EXCEPT !.pc = "loop", !.offset = Len(tail.file)]
                  ELSE [tail EXCEPT !.pc = "done", !.err = "open"]
    /\ UNCHANGED <<zsh, notParse>>

\* One turn of for offset > 0 && len(lines) < maxLines: the block before
\* offset is read and put in front of leftover, the first line of the
\* result becomes the new leftover and the others are taken.
TailReadBlock ==
    /\ tail.pc = "loop"
    /\ tail.offset > 0
    /\ Len(tail.lines) < tail.maxLines
    /\ \E ok \in BOOLEAN :
          LET blockSize == IF tail.offset < readBlockSize THEN tail.offset
                           ELSE readBlockSize
              offset == tail.offset - blockSize
              block == SubSeq(tail.file, offset + 1, offset + blockSize)
              buf == block \o tail.leftover
              blockLines == ScanLines(buf)
          IN  tail' = IF ok
                      THEN [tail EXCEPT !.offset = offset,
                                        !.leftover = blockLines[1],
                                        !.lines = TakeLines(blockLines, Len(blockLines),
                                                            tail.lines, tail.maxLines)]
                      ELSE [tail EXCEPT !.pc = "done", !.offset = offset,
                                        !.lines = <<>>, !.err = "read"]
    /\ UNCHANGED <<zsh, notParse>>

\* The loop is over: the lines are reversed and returned.
TailReturn ==
    /\ tail.pc = "loop"
    /\ ~(tail.offset > 0 /\ Len(tail.lines) < tail.maxLines)
    /\ tail' = [tail EXCEPT !.pc = "done", !.lines = ReverseLines(tail.lines)]
    /\ UNCHANGED <<zsh, notParse>>

NextTail ==
    \/ TailOpen
    \/ TailReadBlock
    \/ TailReturn

SpecTail == InitTail /\ [][NextTail]_vars

(***************************************************************************)
(* The embedding predictor (internal/model/embedding): Learn over the      *)
(* embeddings table.  The table has no unique index, so a text may have    *)
(* several rows: rows[t] is their number under source "history".  Learn is *)
(* started in a goroutine of its own by GenerateModel and by the history   *)
(* worker, each with its own EmbeddingModel over the same database, so two *)
(* invocations may overlap; each store call is one step.                   *)
(***************************************************************************)
\* maxInsert is 100 in the source; the lists of the model hold up to three
\* commands and the cap is scaled down with them.
maxInsert == 2

EmbTexts == {"a", "b", "c"}

\* The cleaned history handed to Learn.
EmbEntries == { <<"a">>, <<"a", "a">>, <<"a", "b">>, <<"a", "b", "c">> }

Learners == {1, 2}

NotLearning == [pc |-> "idle", pos |-> 0, inserted |-> 0, saved |-> 0, allErr |-> FALSE]

\* The table as earlier runs left it, the history, and no Learn started.
InitEmbLearn ==
    /\ LightModels = <<>>
    /\ HeavyModels = <<>>
    /\ Models = <<>>
    /\ EnsembleIdle
    /\ input = <<>>
    /\ SessionIdle
    /\ IngestIdle
    /\ LockIdle
    /\ GenIdle
    /\ PredIdle
    /\ ParseIdle
    /\ \E rows \in [EmbTexts -> 0..1], entries \in EmbEntries :
          emb = [pc |-> "learn", rows |-> rows, entries |-> entries,
                 learner |-> [l \in Learners |-> NotLearning]]

notEmb == <<ensVars, sessVars, ingVars, lockVars, genVars, predVars, parseVars>>

\* go m.Learn(cleaned)
LearnCall(l) ==
    /\ emb.pc = "learn"
    /\ emb.learner[l].pc = "idle"
    /\ emb' = [emb EXCEPT !.learner[l].pc = "head"]
    /\ UNCHANGED notEmb

\* The head of the loop for an entry: if inserted >= maxInsert { break },
\* and m.store.Exists("history", entry), which answers false when its query
\* fails; the entry is skipped when a row is counted.
LearnExists(l) ==
    /\ emb.pc = "learn"
    /\ emb.learner[l].pc = "head"
    /\ emb.learner[l].pos < Len(emb.entries)
    /\ emb.learner[l].inserted < maxInsert
    /\ \E ok \in BOOLEAN :
          LET entry == emb.entries[emb.learner[l].pos + 1]
              exists == ok /\ emb.rows[entry] > 0
          IN  emb' = IF exists
                     THEN [emb EXCEPT !.learner[l].pos = @ + 1]
                     ELSE [emb EXCEPT !.learner[l].pc = "embed"]
    /\ UNCHANGED notEmb

\* m.client.Embed(entry): on an error the entry is given up and the loop
\* goes on.
LearnEmbed(l) ==
    /\ emb.pc = "learn"
    /\ emb.learner[l].pc = "embed"
    /\ \E ok \in BOOLEAN :
          emb' = IF ok
                 THEN [emb EXCEPT !.learner[l].pc = "save"]
                 ELSE [emb EXCEPT !.learner[l].pc = "head",
                                  !.learner[l].pos = @ + 1,
                                  !.learner[l].allErr = TRUE]
    /\ UNCHANGED notEmb

\* m.store.Save("history", entry, resp.Embedding) and inserted++, which is
\* counted whether the row was inserted or not.
LearnSave(l) ==
    /\ emb.pc = "learn"
    /\ emb.learner[l].pc = "save"
    /\ \E ok \in BOOLEAN :
          LET entry == emb.entries[emb.learner[l].pos + 1]
          IN  emb' = IF ok
                     THEN [emb EXCEPT !.rows[entry] = @ + 1,
                                      !.learner[l].saved = @ + 1,
                                      !.learner[l].inserted = @ + 1,
                                      !.learner[l].pos = @ + 1,
                                      !.learner[l].pc = "head"]
                     ELSE [emb EXCEPT !.learner[l].allErr = TRUE,
                                      !.learner[l].inserted = @ + 1,
                                      !.learner[l].pos = @ + 1,
                                      !.learner[l].pc = "head"]
    /\ UNCHANGED notEmb

\* The entries are used up or the cap is reached: return allErr.
LearnReturn(l) ==
    /\ emb.pc = "learn"
    /\ emb.learner[l].pc = "head"
    /\ \/ emb.learner[l].pos = Len(emb.entries)
       \/ emb.learner[l].inserted >= maxInsert
    /\ emb' = [emb EXCEPT !.learner[l].pc = "done"]
    /\ UNCHANGED notEmb

NextEmbLearn ==
    \E l \in Learners :
        \/ LearnCall(l)
        \/ LearnExists(l)
        \/ LearnEmbed(l)
        \/ LearnSave(l)
        \/ LearnReturn(l)

SpecEmbLearn == InitEmbLearn /\ [][NextEmbLearn]_vars

(***************************************************************************)
(* The embedding predictor asked by the ensemble: Predict, and the         *)
(* accumulation of its answer by executeHeavyModels.  Here a score is      *)
(* counted in thousandths (0.5 is 500) and a weight in tenths, so that a   *)
(* score times a weight is a score again.                                  *)
(***************************************************************************)
EmbeddingWeight == 6

topK == 10

threshold == 500

\* 1 - vector_distance_cos(e.emb, q.v) for the rows of the table: what the
\* vectors of the external service make it, below, at and above threshold.
Sims == {400, 500, 800}

Times(score, weight) == (score * weight) \div 10

\* embeddingStore.SearchSimilar: the topK rows nearest to the query, of
\* the given source, ORDER BY score DESC (rows of equal score in any
\* order), and of these the ones with score >= threshold, each tagged
\* with the source it was asked for.
SearchSimilar(rows, sim, source, k, least) ==
    LET texts == { t \in EmbTexts : rows[t] > 0 }
        ordered == { p \in Perms(texts) :
                        \A i, j \in 1..Len(p) : i < j => sim[p[i]] >= sim[p[j]] }
    IN  { SelectSeq([i \in 1..Len(Limit(p, k)) |->
                        [Text |-> p[i], Score |-> sim[p[i]], Source |-> source]],
                    LAMBDA sg : sg.Score >= least) : p \in ordered }

\* for _, s := range suggestions { s.Score *= m.Weight() ... }
Weighted(suggestions) ==
    [i \in 1..Len(suggestions) |->
        [suggestions[i] EXCEPT !.Score = Times(@, EmbeddingWeight)]]

\* scoreMap[s.Text] += s.Score * weight over the answer of the embedding
\* predictor, for the text t.
RECURSIVE Contribution(_, _)
Contribution(t, suggestions) ==
    IF suggestions = <<>> THEN 0
    ELSE (IF Head(suggestions).Text = t
          THEN Times(Head(suggestions).Score, EmbeddingWeight) ELSE 0)
         + Contribution(t, Tail(suggestions))

\* The table as learning left it, and a heavy call about to ask the
\* predictor.
InitEmbPredict ==
    /\ LightModels = <<>>
    /\ HeavyModels = <<>>
    /\ Models = <<>>
    /\ EnsembleIdle
    /\ input = <<>>
    /\ SessionIdle
    /\ IngestIdle
    /\ LockIdle
    /\ GenIdle
    /\ PredIdle
    /\ ParseIdle
    /\ \E rows \in [EmbTexts -> 0..1] :
          emb = [pc |-> "predict", rows |-> rows,
                 sim |-> [t \in EmbTexts |-> 0],
                 answer |-> [list |-> <<>>, err |-> "nil"],
                 scoreMap |-> [t \in EmbTexts |-> 0]]

\* EmbeddingModel.Predict(input): the vector of the input is asked of the
\* service, the table is searched, and every score is multiplied by
\* Weight().
EmbeddingPredict ==
    /\ emb.pc = "predict"
    /\ \E sim \in [EmbTexts -> Sims], embedded \in BOOLEAN, searched \in BOOLEAN :
          \E found \in SearchSimilar(emb.rows, sim, "history", topK, threshold) :
              emb' = [emb EXCEPT
                        !.pc = "answered",
                        !.sim = sim,
                        !.answer = IF ~embedded THEN [list |-> <<>>, err |-> "embed"]
                                   ELSE IF ~searched THEN [list |-> <<>>, err |-> "search"]
                                   ELSE [list |-> Weighted(found), err |-> "nil"]]
    /\ UNCHANGED notEmb

\* The goroutine of executeHeavyModels for the predictor: an error ends
\* it, otherwise scoreMap[s.Text] += s.Score * weight for each suggestion.
HeavyAccumulate ==
    /\ emb.pc = "answered"
    /\ emb' = [emb EXCEPT
                 !.pc = "scored",
                 !.scoreMap = IF emb.answer.err # "nil" THEN @
                              ELSE [t \in EmbTexts |->
                                      @[t] + Contribution(t, emb.answer.list)]]
    /\ UNCHANGED notEmb

NextEmbPredict ==
    \/ EmbeddingPredict
    \/ HeavyAccumulate

SpecEmbPredict == InitEmbPredict /\ [][NextEmbPredict]_vars

(***************************************************************************)
(* What the properties below are stated with.                              *)
(***************************************************************************)
Sorted(list) == \A i, j \in 1..Len(list) : i < j => list[i].Score >= list[j].Score

ListsOf(em) == [i \in 1..Len(em) |-> em[i].list]

\* The sum of score * weight over the suggestions of a list that carry text t.
RECURSIVE SumFor(_, _, _)
SumFor(t, suggestions, weight) ==
    IF suggestions = <<>> THEN 0
    ELSE (IF Head(suggestions).Text = t THEN Head(suggestions).Score * weight ELSE 0)
         + SumFor(t, Tail(suggestions), weight)

\* The same sum over the predictors of ms, each with what it returned.
RECURSIVE SumOver(_, _, _)
SumOver(t, ms, i) ==
    IF i > Len(AllPredictors) THEN 0
    ELSE (IF AllPredictors[i] \in ms
             THEN SumFor(t, ret[AllPredictors[i]], Weight(AllPredictors[i])) ELSE 0)
         + SumOver(t, ms, i + 1)

\* The texts the predictors of ms suggested.
Suggested(ms) ==
    { t \in Texts : \E m \in ms : \E i \in 1..Len(ret[m]) : ret[m][i].Text = t }

\* list holds one entry per text the predictors of ms suggested, with its sum.
IsMergeOf(list, ms) ==
    /\ Len(list) = Cardinality(Suggested(ms))
    /\ \A t \in Suggested(ms) :
          \E i \in 1..Len(list) : list[i] = Sug(t, SumOver(t, ms, 1))

OkTasks == { m \in Predictors : task[m] = "ok" }

PredictDone == kind = "predict" /\ pc = "done"

\* The place of text t among the keys of a score map, in first-added order.
Pos(keys, t) == CHOOSE i \in 1..Len(keys) : keys[i] = t

\* Entries of equal score stand in the order their texts were first added.
TiesFirstSeen(list, keys) ==
    \A i, j \in 1..Len(list) :
        (i < j /\ list[i].Score = list[j].Score)
            => Pos(keys, list[i].Text) < Pos(keys, list[j].Text)

\* The heavy tier of the progressive call has sent its list.
HeavyEmitted ==
    /\ kind = "next"
    /\ pc \in {"closing", "done"}
    /\ emitted # <<>>
    /\ emitted[Len(emitted)].group \cap HeavyPool # {}

(***************************************************************************)
(* C1: within one progressive-predict call the stream carries at most two  *)
(* lists, in the order they were sent, and when it carries two the first   *)
(* was computed by tasks of light predictors only (those of LightModels)   *)
(* and the second by tasks of heavy predictors only.                       *)
(***************************************************************************)
C1_LightThenHeavy ==
    /\ Len(emitted) <= 2
    /\ received \o resultChan = ListsOf(emitted)
    /\ Len(emitted) = 2 =>
          /\ emitted[1].group = Range(LightModels)
          /\ emitted[1].group \subseteq LightPool
          /\ emitted[1].ok \subseteq LightPool
          /\ emitted[2].group # {}
          /\ emitted[2].group \subseteq HeavyPool
          /\ emitted[2].ok \subseteq HeavyPool

\* The consumer has received two lists, each with suggestions of its own tier.
C1_Witness ==
    /\ Len(received) = 2
    /\ emitted[1].ok # {}
    /\ emitted[2].ok # {}
    /\ received[1] # <<>>
    /\ received[2] # <<>>

(***************************************************************************)
(* C2: if every invoked predictor returns, a progressive-predict stream is *)
(* eventually closed; and a stream that is closed while no heavy predictor *)
(* is registered and some light predictor is carries exactly one list,     *)
(* computed by the light predictors.                                       *)
(***************************************************************************)
C2_StreamCloses ==
    /\ [](( /\ kind = "next"
            /\ chanClosed
            /\ HeavyModels = <<>>
            /\ LightModels # <<>> )
          => ( /\ Len(emitted) = 1
               /\ received \o resultChan = <<emitted[1].list>>
               /\ emitted[1].group = Range(LightModels) ))
    /\ (kind = "next" /\ ~chanClosed) ~> chanClosed

\* A stream closed with its one light list, no heavy predictor registered.
C2_Witness ==
    /\ kind = "next"
    /\ chanClosed
    /\ HeavyModels = <<>>
    /\ \A m \in HeavyPool : regPc[m] = "failed"
    /\ LightModels # <<>>
    /\ Len(emitted) = 1
    /\ emitted[1].list # <<>>

(***************************************************************************)
(* C3 (as claimed): one-shot predict never fails because a predictor       *)
(* failed: with the deadline not fired, it returns no error, every         *)
(* predictor of the list was invoked, and the result is the merge of what  *)
(* the predictors that succeeded returned.                                 *)
(***************************************************************************)
C3_PredictSwallowsErrors ==
    (PredictDone /\ ~deadline) =>
        /\ retErr = "nil"
        /\ \A m \in Range(group) : task[m] \in {"ok", "err"}
        /\ IsMergeOf(result, OkTasks)

(***************************************************************************)
(* C4 (as claimed): once the SuggestionTimeout timer has fired, one-shot   *)
(* predict does not wait for a predictor that has not returned (its return *)
(* is enabled as soon as no task is left to reach its select), and it      *)
(* returns without an error.                                               *)
(***************************************************************************)
C4_PredictReturnsAtDeadline ==
    /\ ( /\ kind = "predict"
         /\ pc = "wait"
         /\ deadline
         /\ \A m \in Predictors : task[m] # "spawned" )
       => ENABLED PredictReturn
    /\ (PredictDone /\ deadline) => retErr = "nil"

(***************************************************************************)
(* C5 (as claimed): once the 100 ms timer of the light tier has fired, the *)
(* light list is emitted without waiting for a light predictor that has    *)
(* not returned.                                                           *)
(***************************************************************************)
C5_LightEmittedAtSubDeadline ==
    ( /\ kind = "next"
      /\ pc = "lightWait"
      /\ lightDeadline
      /\ \A m \in Predictors : task[m] # "spawned" )
    => ENABLED EmitLight

(***************************************************************************)
(* C6: the heavy list of a progressive-predict call holds one entry per    *)
(* text the heavy predictors suggested, with the sum of score * weight     *)
(* over the heavy predictors alone, whatever the light tier put in its own *)
(* map; light ("light suggestion", 0.5) at weight 1.0 and heavy            *)
(* ("heavy suggestion", 1.0) at weight 2.0 give [("light suggestion",      *)
(* 0.5)] and then [("heavy suggestion", 2.0)].                             *)
(***************************************************************************)
C6_HeavyListFromFreshMap ==
    HeavyEmitted =>
        /\ IsMergeOf(emitted[Len(emitted)].list, OkTasks)
        /\ OkTasks \subseteq HeavyPool
        /\ ( /\ Len(emitted) = 2
             /\ emitted[1].ok = {"L1"}
             /\ emitted[1].list = <<Sug("light suggestion", 50)>>
             /\ OkTasks = {"H1"}
             /\ ret["H1"] = <<Sug("heavy suggestion", 10)>> )
           => emitted[2].list = <<Sug("heavy suggestion", 200)>>

\* A text that both tiers suggested stands in the heavy list.
C6_Witness ==
    /\ HeavyEmitted
    /\ Len(emitted) = 2
    /\ \E i \in 1..Len(emitted[1].list) : \E j \in 1..Len(emitted[2].list) :
          /\ emitted[1].list[i].Text = emitted[2].list[j].Text
          /\ emitted[1].list[i].Score > 0
          /\ emitted[2].list[j].Score > 0

C8_ListsSorted ==
    /\ Sorted(result)
    /\ \A i \in 1..Len(emitted) : Sorted(emitted[i].list)
    /\ \A i \in 1..Len(resultChan) : Sorted(resultChan[i])
    /\ \A i \in 1..Len(received) : Sorted(received[i])

\* A list of three entries with different scores has been sent.
C8_Witness ==
    \E i \in 1..Len(emitted) :
        /\ Len(emitted[i].list) = 3
        /\ emitted[i].list[1].Score > emitted[i].list[2].Score
        /\ emitted[i].list[2].Score > emitted[i].list[3].Score

(***************************************************************************)
(* C9 (as claimed): entries of equal score of an ensemble ranking stand in *)
(* the order in which their texts were first added to the score map.       *)
(***************************************************************************)
C9_TiesInFirstSeenOrder ==
    /\ (PredictDone /\ retErr = "nil") => TiesFirstSeen(result, seenOrder)
    /\ (kind = "next" /\ pc = "heavyCheck" /\ emitted # <<>>)
          => TiesFirstSeen(emitted[Len(emitted)].list, seenOrder)
    /\ HeavyEmitted => TiesFirstSeen(emitted[Len(emitted)].list, seenOrder)

(***************************************************************************)
(* C10 (as claimed): once the consumer of a progressive-predict stream has *)
(* abandoned it, no predictor task is started: no errgroup is started and  *)
(* no predictor is invoked.                                                *)
(***************************************************************************)
C10_NoTaskAfterAbandon ==
    [][ (consumerGone /\ consumerGone') =>
          \A m \in Predictors :
              /\ (task'[m] = "spawned" => task[m] = "spawned")
              /\ (task'[m] = "running" => task[m] = "running") ]_vars

(***************************************************************************)
(* The session driver's properties.                                        *)
(***************************************************************************)
\* The messages the step hands to Update: only Update(suggestionsMsg) takes
\* a message out of msgs.
Delivered == msgs \ msgs'

\* C11: an emission whose prefix differs from the prefix the driver last
\* recorded is discarded: the step that hands it to Update leaves the light
\* cache, the heavy cache, the loading flag and the displayed list unchanged.
C11_StaleEmissionDiscarded ==
    [][\A msg \in Delivered :
          msg.prefix # lastInput =>
             UNCHANGED <<lightResults, heavyResults, isLoadingHeavy, items>>]_vars

\* A stale emission has been discarded while both caches and the displayed
\* list held something.
C11_Witness ==
    /\ lastUpdate = "discarded"
    /\ lightResults # <<>>
    /\ heavyResults # <<>>
    /\ items # <<>>

\* C12: every emission the driver accepts was produced by the most recently
\* launched progressive call; in particular, when the input goes from a
\* prefix A to a prefix B and back to A, a list still pending from the first
\* call for A is not stored.
C12_AcceptedFromLatestCall ==
    [][\A msg \in Delivered :
          msg.tier # "none" /\ msg.prefix = lastInput => msg.call = Len(calls)]_vars

\* C13: each accepted emission is stored in the cache of the tier that
\* produced it, whatever the configuration of the ensemble: a list computed
\* from light predictors becomes the light cache and a list computed from
\* heavy predictors becomes the heavy cache, the other cache staying as it is.
C13_StoredInCacheOfItsTier ==
    [][\A msg \in Delivered :
          msg.tier # "none" /\ msg.prefix = lastInput =>
             /\ msg.tier = "light" =>
                   lightResults' = msg.suggestions /\ heavyResults' = heavyResults
             /\ msg.tier = "heavy" =>
                   heavyResults' = msg.suggestions /\ lightResults' = lightResults]_vars

MergedScore(t, light, heavy) == SumFor(t, light, 10) + SumFor(t, heavy, 15)

\* C15: after every accepted emission the displayed list holds exactly the
\* texts present in the light or the heavy cache, each once, in
\* non-increasing order of merged score, the merged score of a text being
\* 1.0 x (sum of its scores in the light cache) + 1.5 x (sum of its scores
\* in the heavy cache).
C15_DisplayIsMergedView ==
    [][\A msg \in Delivered :
          msg.prefix = lastInput =>
             /\ Range(items') = { s.Text : s \in Range(lightResults') \cup
                                                 Range(heavyResults') }
             /\ \A i, j \in 1..Len(items') :
                   i < j =>
                      /\ items'[i] # items'[j]
                      /\ MergedScore(items'[i], lightResults', heavyResults')
                            >= MergedScore(items'[j], lightResults', heavyResults')]_vars

\* Both caches hold a list and the displayed list shows the three texts of
\* their merge, the text only the heavy cache holds above the text only the
\* light cache holds.
C15_Witness ==
    /\ lastUpdate = "stored"
    /\ lightResults # <<>>
    /\ heavyResults # <<>>
    /\ items = <<"git status", "heavy suggestion", "light suggestion">>

(***************************************************************************)
(* The properties of history ingestion.                                    *)
(***************************************************************************)
\* The cycle makes a call of LoadCommands, SaveHistory or UpdateMetadata.
Calls(c) == cycle'[c].calls # cycle[c].calls

\* No other cycle has started: what the store holds does not change while
\* cycle c runs.
Alone(c) == \A d \in Cycles \ {c} : cycle[d].pc = "idle"

\* C16: in an ingestion cycle, if the current mtime of the source is at most
\* the stored mtime then nothing is loaded or written: the cycle calls
\* neither LoadCommands nor SaveHistory nor UpdateMetadata; otherwise it
\* loads the commands and calls SaveHistory before UpdateMetadata, never the
\* other way round.
C16_SkipElseLoadSaveUpdate ==
    [][\A c \in Cycles :
          Calls(c) =>
             /\ Alone(c) => file.mtime > meta
             /\ cycle'[c].calls \in { <<"load">>, <<"load", "save">>,
                                      <<"load", "save", "update">> }]_vars

\* The cycle's UpdateMetadata returns without error: the cycle has completed
\* successfully.
Completes(c) ==
    /\ cycle[c].pc = "update"
    /\ cycle'[c].pc = "done"
    /\ cycle'[c].err = "nil"

\* C17: when an ingestion cycle completes successfully, the stored mtime of
\* the source is at least the mtime the file had when the cycle started,
\* which is at most the mtime the cycle first read.
C17_WatermarkCoversStart ==
    [][\A c \in Cycles : Completes(c) => meta' >= cycle[c].startMtime]_vars

\* A cycle has gone through LoadCommands, SaveHistory and UpdateMetadata
\* without error for a file of mtime 2, and the store holds that mtime.
C17_Witness ==
    \E c \in Cycles :
       /\ cycle[c].pc = "done"
       /\ cycle[c].err = "nil"
       /\ cycle[c].calls = <<"load", "save", "update">>
       /\ file.mtime = 2
       /\ meta = 2

\* The cycle ended because LoadCommands or SaveHistory failed.
LoadOrSaveFailed(c) ==
    cycle[c].pc = "done" /\ cycle[c].err \in {"LoadCommands", "SaveHistory"}

\* C18: if loading the history or SaveHistory fails in an ingestion cycle,
\* the cycle ends without calling UpdateMetadata and leaves the stored
\* watermark as it was, and the cycle of the next start, run after it with
\* no other cycle about, is not skipped: its comparison of the file's mtime
\* with the stored one finds the file newer.
C18_FailedCycleIsRetried ==
    [][\A c \in Cycles :
          /\ (cycle[c].pc \in {"load", "save"} /\ LoadOrSaveFailed(c)') =>
                /\ meta' = meta
                /\ cycle'[c].calls \in { <<"load">>, <<"load", "save">> }
          /\ \A d \in Cycles \ {c} :
                (/\ LoadOrSaveFailed(c)
                 /\ c \in cycle[d].after
                 /\ cycle[d].pc = "getCurrent"
                 /\ cycle'[d].pc # "getCurrent") => file.mtime > cycle[d].lastMtime]_vars

\* SaveHistory is called and returns in this step.
Saves(c) == cycle[c].pc = "save" /\ cycle'[c].pc # "save"

\* C19: SaveHistory is atomic: if the upsert of any command of the batch
\* fails, no row of the history table is inserted or incremented by the call
\* and the call returns the error to the worker.
C19_SaveHistoryAtomic ==
    [][\A c \in Cycles :
          (Saves(c) /\ lastSave'.failed) =>
             /\ history' = history
             /\ lastSave'.err = "error"
             /\ cycle'[c].err = "SaveHistory"]_vars

\* The number of entries of a batch that are the command cmd.
RECURSIVE Occurrences(_, _)
Occurrences(cmd, entries) ==
    IF entries = <<>> THEN 0
    ELSE (IF Head(entries) = cmd THEN 1 ELSE 0) + Occurrences(cmd, Tail(entries))

\* The count the table holds for a command: the sum over its rows.
RECURSIVE CountOf(_, _)
CountOf(table, cmd) ==
    IF table = <<>> THEN 0
    ELSE (IF Head(table).command = cmd THEN Head(table).count ELSE 0)
            + CountOf(Tail(table), cmd)

\* C20: after every successful call SaveHistory(cmds) the count of each
\* command is at least its count before the call plus the number of its
\* occurrences in cmds, as it would be after one call per occurrence.
C20_CountsGrowByOccurrences ==
    [][\A c \in Cycles :
          (Saves(c) /\ lastSave'.err = "nil") =>
             \A cmd \in Commands :
                CountOf(history', cmd) >=
                   CountOf(history, cmd)
                      + Occurrences(cmd, Cleaned(cycle[c].historyEntries))]_vars

\* C21: the history table holds at most one row per content hash, every row
\* has a count of at least 1, and no step of an ingestion cycle removes a row
\* or decreases the count of one.
C21_OneRowPerHashCountsGrow ==
    /\ [](\A r1, r2 \in 1..Len(history) :
             history[r1].hash = history[r2].hash => r1 = r2)
    /\ [](\A r \in 1..Len(history) : history[r].count >= 1)
    /\ [][/\ Len(history') >= Len(history)
          /\ \A r \in 1..Len(history) :
                /\ history'[r].hash = history[r].hash
                /\ history'[r].count >= history[r].count]_vars

\* Two commands have a row each and one of them was saved again.
C21_Witness ==
    /\ Len(history) = 2
    /\ \E r \in 1..Len(history) : history[r].count >= 2
\* The goroutine of the cycle is between its start and its return.
Executing(c) == cycle[c].pc \notin {"idle", "done"}

\* C22: at most one history-ingestion cycle for the source is executing at
\* any time, whether the cycles are goroutines of one process or of
\* concurrently started processes.
C22_OneCycleAtATime ==
    \A c, d \in Cycles : (Executing(c) /\ Executing(d)) => c = d
\* The load-history process holds the lock file it created.
Holds(p) == proc[p].f /\ proc[p].pc \in {"load", "getDB", "save"}

\* The lock file exists and no process holds it.
Stale == lockFile /\ \A p \in Procs : ~Holds(p)

\* C23: a lock file left behind by a load-history run that crashed does not
\* block ingestion forever: a later run, started while the stale file is
\* there, is followed by a run that holds the lock and runs the worker,
\* unless the later run is killed too.
C23_StaleLockIsRecovered ==
    \A p \in Procs :
       (proc[p].pc = "open" /\ Stale)
          ~> ((\E q \in Procs : Holds(q)) \/ proc[p].exit = "killed")

\* The run of a process that holds the lock ends in one of the ways how.
Ends(p, how) == Holds(p) /\ proc'[p].pc = "exited" /\ proc'[p].exit \in how

\* C24: the process that acquired the lock removes the lock file on every
\* path by which its worker run ends, be it a normal return, a worker error,
\* a panic or the termination of the process while it obtains the store; and
\* a process that did not acquire the lock never removes the file.
C24_LockReleasedOnEveryPath ==
    [][/\ \A p \in Procs :
             Ends(p, {"return", "workerError", "panic", "fatal"}) => ~lockFile'
       /\ (lockFile /\ ~lockFile') => \E p \in Procs : Holds(p) /\ ~Holds(p)']_vars
\* The readiness events sent so far for a heavy predictor.
EventsOf(m) == SelectSeq(ch \o drained, LAMBDA ev : ev.Name = m)

\* An event of the given status has been sent for the predictor.
Sent(m, status) ==
    \E i \in 1..Len(EventsOf(m)) : EventsOf(m)[i].Status = status

\* C25: for each enabled heavy predictor exactly one readiness event is
\* sent: never more than one, one when its goroutine has ended, none for a
\* predictor that is not enabled.  If it is an error event the predictor is
\* never in the heavy list; if it is a ready event the predictor had been
\* added to the heavy list before the event was sent.
C25_OneReadinessEvent ==
    \A m \in HeavyPool :
       /\ Len(EventsOf(m)) <= 1
       /\ regPc[m] = "done" => Len(EventsOf(m)) = 1
       /\ regPc[m] = "disabled" => EventsOf(m) = <<>>
       /\ (regPc[m] = "failed" \/ Sent(m, "ModelError")) =>
             m \notin added /\ m \notin Range(HeavyModels)
       /\ Sent(m, "ModelReady") => m \in added

\* One predictor has sent its error event and the other its ready event.
C25_Witness ==
    \E m, n \in HeavyPool :
       /\ Sent(m, "ModelError")
       /\ Sent(n, "ModelReady")
       /\ regPc[m] = "done" /\ regPc[n] = "done"
\* A one-shot call is in flight and the step is not the start of another.
InPredict == kind = "predict" /\ pc = "wait"

\* The task of the predictor has reached its select in this call.
Selected(m) == task[m] \in {"running", "ok", "err", "skipped"}

\* C26: a one-shot predict call works on the snapshot of the predictor list
\* it took when it started: its tasks are those of the snapshot, whatever
\* AddHeavyModel publishes meanwhile; a predictor is invoked at most once by
\* the call, a predictor added after the start not at all; the call neither
\* starts nor returns later because of an addition in progress; and no step
\* of AddHeavyModel changes the list the call is iterating.
C26_PredictOnSnapshot ==
    /\ [](kind = "predict" =>
             \A m \in Predictors : task[m] # "none" => m \in Range(group))
    /\ [](pc \in {"idle", "done"} => ENABLED PredictStart)
    /\ []((InPredict /\ WaitReturns) => ENABLED PredictReturn)
    /\ [][InPredict =>
             /\ group' = group
             /\ \A m \in Predictors :
                   /\ m \notin Range(group) => task'[m] = "none"
                   /\ Selected(m) => task'[m] # "spawned"
                   /\ task[m] \in {"ok", "err", "skipped"} => task'[m] = task[m]]_vars

\* A heavy predictor was published while the call was in flight, one that
\* the call had in its snapshot has been invoked and has returned, and the
\* call can return.
C26_Witness ==
    /\ InPredict
    /\ WaitReturns
    /\ \E m \in HeavyPool : m \in Range(Models) /\ m \notin Range(group)
    /\ \E m \in HeavyPool : m \in Range(group) /\ task[m] = "ok"
\* C27: in a progressive call a light predictor that returns an error never
\* prevents another light predictor from being invoked, so that the
\* suggestions of the other are in the light list: in the light tier a task
\* returns without invoking its predictor only when a timer has fired.
C27_LightFailureSparesPeers ==
    (kind = "next" /\ pc = "lightWait") =>
       \A m \in Predictors :
          task[m] = "skipped" => (deadline \/ lightDeadline)
\* The input of the Predict calls has no rune besides white space.
Blank == TrimSpace(query) = <<>>

\* C28: for an empty or whitespace-only prefix every textual predictor,
\* the Markov predictor included, and the ensemble over them return an
\* empty list and no error, whenever the store itself answers its queries.
C28_BlankPrefixYieldsEmpty ==
    (Blank /\ answer.model # "none" /\ answer.err # "store")
        => (answer.list = <<>> /\ answer.err = "nil")

\* C29: when the shell history file does not exist, no step of an ingestion
\* cycle writes to the store, and model construction still succeeds: what
\* GenerateModel returns is an ensemble, not an error.
C29_AbsentFileStartupSucceeds ==
    /\ [][(~file.exists /\ ~file'.exists) =>
             (history' = history /\ meta' = meta)]_vars
    /\ [](~file.exists => built # "error")

\* C30: whatever the prefix, each suggestion that a textual predictor
\* (prefix, freq, markov, alias, context) returns is a text that begins with
\* the trimmed prefix.
C30_SuggestionsBeginWithPrefix ==
    answer.model \in Textual =>
        \A i \in 1..Len(answer.list) :
            HasPrefix(answer.list[i].Text, TrimSpace(query))

\* The number of places in the learned entries where token b stands right
\* after token a, and the tokens that stand after a somewhere.
RECURSIVE Follows(_, _, _)
Follows(a, b, entries) ==
    IF entries = <<>> THEN 0
    ELSE LET tokens == Fields(Head(entries))
         IN  Cardinality({ i \in 1..(Len(tokens) - 1) :
                             tokens[i] = a /\ tokens[i + 1] = b })
             + Follows(a, b, Tail(entries))

Followers(a, entries) ==
    { b \in UNION { Range(Fields(e)) : e \in Range(entries) } : Follows(a, b, entries) > 0 }

LastToken(s) == Fields(s)[Len(Fields(s))]

\* C32: after any sequence of Learn calls the Markov predictor answers a
\* prefix that has a token with no error and with exactly one suggestion for
\* each token b that followed the last token of the prefix in the learned
\* entries: its text is the trimmed prefix, a space and b, its score is the
\* number of times b followed that token over all entries learned so far,
\* and the list is in descending order of score.
C32_MarkovCountsFollowers ==
    [][(answer' # answer /\ answer'.model = "markov" /\ Fields(query) # <<>>) =>
          LET a == LastToken(query)
              bs == Followers(a, learned)
          IN  /\ answer'.err = "nil"
              /\ Len(answer'.list) = Cardinality(bs)
              /\ \A b \in bs : \E i \in 1..Len(answer'.list) :
                     answer'.list[i] = Sug(TrimSpace(query) \o <<" ">> \o b,
                                          Follows(a, b, learned))
              /\ Sorted(answer'.list)]_vars

\* Three entries learned in three calls, and an answer with two followers
\* of different counts.
C32_Witness ==
    /\ answer.model = "markov"
    /\ Len(learned) = 3
    /\ Len(answer.list) = 2
    /\ answer.list[1].Score = 2
    /\ answer.list[2].Score = 1

\* The list holds the predictor exactly once.
Once(list, m) == Cardinality({ i \in 1..Len(list) : list[i] = m }) = 1

\* The probe of m succeeded and its AddHeavyModel(m) has returned.
Registered(m) == m \in added /\ regPc[m] \in {"ready", "done"}

\* C36: once the AddHeavyModel calls of both heavy predictors have returned,
\* whatever their interleaving, HeavyModels holds each of the two exactly
\* once and nothing else, and Models holds each light predictor and each of
\* the two heavy predictors exactly once and nothing else.
C36_NoRegistrationLost ==
    (\A m \in HeavyPool : Registered(m)) =>
        /\ \A m \in HeavyPool : Once(HeavyModels, m)
        /\ Len(HeavyModels) = Cardinality(HeavyPool)
        /\ \A m \in HeavyPool \cup Range(LightModels) : Once(Models, m)
        /\ Len(Models) = Cardinality(HeavyPool) + Len(LightModels)

\* C37: the goroutine of NextPredict is never kept waiting by a send.  It
\* sends at most two lists; whenever the tasks of a tier have all returned
\* the send of that tier's list can be made although nothing has been
\* received; and with no receiver at all, if every invoked predictor
\* returns, the goroutine ends with the channel closed, both lists still in
\* it.
C37_SendNeverBlocks ==
    /\ [](Len(emitted) <= ChanCap)
    /\ []((kind = "next" /\ pc = "lightWait" /\ WaitReturns) => ENABLED EmitLight)
    /\ []((kind = "next" /\ pc = "heavyWait" /\ WaitReturns) => ENABLED EmitHeavy)
    /\ (kind = "next" /\ pc # "done") ~> (pc = "done" /\ chanClosed)

\* Closed with two lists sent and none received.
C37_Witness ==
    /\ kind = "next"
    /\ pc = "done"
    /\ chanClosed
    /\ Len(resultChan) = 2
    /\ received = <<>>

\* C38: while the session goes on, the displayed list is empty or was built
\* only from emissions whose prefix is the trimmed text now in the input; so
\* the suggestion that Enter selects was computed for that text.
C38_DisplayedListIsCurrent ==
    /\ [](~quit => (items = <<>> \/ origin.items \subseteq {TrimSpace(input)}))
    /\ [][selected' # selected => origin.items \subseteq {TrimSpace(input)}]_vars

\* C39: no step makes the stored watermark of the source smaller, also when
\* two ingestion cycles overlap and write their watermarks in the order
\* opposite to that in which they read the mtime of the file.
C39_WatermarkNeverDecreases == [][meta' >= meta]_vars

\* C40: when a Sync that runs with no other cycle about completes and the
\* file was modified after Sync loaded its commands, the modification is not
\* lost: the file's mtime is above the watermark Sync has written, so the
\* next NeedsReload answers true and a later cycle ingests the new commands.
C40_ModificationDuringSyncKept ==
    [][\A c \in Cycles :
          ( /\ cycle[c].kind = "sync"
            /\ Alone(c)
            /\ Completes(c)
            /\ file.lines # cycle[c].historyEntries )
          => file.mtime > meta']_vars

\* What the lines of a history file are to the parser: blank, beginning a
\* record of the extended format, ending in a backslash; and the text a line
\* contributes, without the extended prefix and the backslash.
BlankLine(line) == TrimSpace(line) = <<>>

ExtendedLine(line) == HasPrefix(line, <<":", " ">>) /\ Contains(line, ";")

Continues(line) == ~BlankLine(line) /\ line[Len(line)] = "\\"

TextOf(line) ==
    LET body == IF ExtendedLine(line) /\ Index(line, ";") < Len(line)
                THEN SubSeq(line, Index(line, ";") + 1, Len(line)) ELSE line
    IN  IF Continues(line) THEN TrimSpace(SubSeq(body, 1, Len(body) - 1)) ELSE body

\* The last line of the command that line i begins: the run of lines ending
\* in a backslash goes on up to the line that follows it, unless a blank
\* line, a new record or the end of the file comes first.
RECURSIVE LastLineOf(_, _)
LastLineOf(lines, i) ==
    IF /\ Continues(lines[i])
       /\ i < Len(lines)
       /\ ~BlankLine(lines[i + 1])
       /\ ~ExtendedLine(lines[i + 1])
    THEN LastLineOf(lines, i + 1)
    ELSE i

\* The lines i to j joined: one space after each line that ends in a
\* backslash.
RECURSIVE JoinLines(_, _, _)
JoinLines(lines, i, j) ==
    IF i > j THEN <<>>
    ELSE TextOf(lines[i]) \o (IF Continues(lines[i]) THEN <<" ">> ELSE <<>>)
            \o JoinLines(lines, i + 1, j)

\* The commands of the file from line i on, in file order.
RECURSIVE CommandsFrom(_, _)
CommandsFrom(lines, i) ==
    IF i > Len(lines) THEN <<>>
    ELSE IF BlankLine(lines[i]) THEN CommandsFrom(lines, i + 1)
    ELSE <<TrimSpace(JoinLines(lines, i, LastLineOf(lines, i)))>>
            \o CommandsFrom(lines, LastLineOf(lines, i) + 1)

\* C31: what LoadZshHistoryCommands returns for a file it could open is one
\* string per command, in file order: a run of lines that end in a backslash
\* is joined with the line after it by single spaces, the backslashes
\* removed, and a run that is still pending at a blank line or at the end of
\* the file is a command of its own, not a part of the next command.
C31_OneStringPerCommand ==
    (zsh.pc = "done" /\ zsh.err = "nil") =>
        /\ zsh.commands = CommandsFrom(zsh.lines, 1)
        /\ zsh.current = <<>>

\* A file of three lines returned as two commands: a line ending in a
\* backslash, a blank line, and a line ending in a backslash at the end of
\* the file.
C31_Witness ==
    /\ zsh.pc = "done"
    /\ zsh.err = "nil"
    /\ Len(zsh.lines) = 3
    /\ Continues(zsh.lines[1])
    /\ BlankLine(zsh.lines[2])
    /\ Continues(zsh.lines[3])
    /\ Len(zsh.commands) = 2

\* The non-empty cleaned lines of a whole file, in file order.
CleanedLines(bytes) ==
    LET all == ScanLines(bytes)
        cleaned == [i \in 1..Len(all) |-> cleanZshLine(all[i])]
    IN  SelectSeq(cleaned, LAMBDA l : l # <<>>)

\* The last n elements of a sequence, or all of it when it has fewer.
LastN(seq, n) ==
    IF Len(seq) <= n THEN seq ELSE SubSeq(seq, Len(seq) - n + 1, Len(seq))

\* C33: what LoadZshHistoryTail(path, N) returns is, in file order, the
\* last min(N, M) non-empty cleaned lines of the file, M being the number
\* of such lines in the file, wherever the block boundaries fall and also
\* when the backward read reaches the first line of the file.
C33_TailIsLastLines ==
    (tail.pc = "done" /\ tail.err = "nil") =>
        tail.lines = LastN(CleanedLines(tail.file), tail.maxLines)

\* C34, its three parts.  One Learn invocation inserts at most maxInsert
\* rows.
LearnCapped == \A l \in Learners : emb.learner[l].saved <= maxInsert

\* No row is inserted for a text that has a row already.
InsertsOnlyMissing ==
    \A t \in EmbTexts : emb'.rows[t] > emb.rows[t] => emb.rows[t] = 0

\* A failed embed or save does not end the invocation: it is back at the
\* head of the loop, at the next entry.
GoesOnAfterFailure ==
    \A l \in Learners :
        (emb'.learner[l].allErr /\ emb'.learner[l] # emb.learner[l]
            /\ emb.learner[l].pc \in {"embed", "save"}
            /\ emb'.learner[l].pc # "save")
        => /\ emb'.learner[l].pc = "head"
           /\ emb'.learner[l].pos = emb.learner[l].pos + 1

\* C34: one learn invocation of the embedding predictor inserts at most
\* maxInsert rows, never inserts a command that has a row under "history"
\* already (so learning the same commands again adds no second row), and
\* goes on to the remaining commands after the embed or the save of one
\* command failed.
C34_LearnInsertsOnlyMissing ==
    [][emb.pc = "learn" =>
          /\ LearnCapped'
          /\ InsertsOnlyMissing
          /\ GoesOnAfterFailure]_vars

\* The texts embedding_search finds for the query: the stored ones whose
\* similarity is at least the threshold.
Found == { t \in EmbTexts : emb.rows[t] > 0 /\ emb.sim[t] >= threshold }

\* C35: the embedding predictor returns the (text, score) pairs of
\* embedding_search unchanged (each stored text whose similarity to the
\* query is at least 0.5, with that similarity as its score), tagged with
\* the source embedding, so that what such a suggestion adds to the score
\* of the ensemble is its similarity times 0.6.
C35_PairsOfSearchUnchanged ==
    (emb.pc \in {"answered", "scored"} /\ emb.answer.err = "nil") =>
        /\ { sg.Text : sg \in Range(emb.answer.list) } = Found
        /\ \A sg \in Range(emb.answer.list) :
              /\ sg.Score = emb.sim[sg.Text]
              /\ sg.Score >= threshold
              /\ sg.Source = "embedding"
        /\ emb.pc = "scored" =>
              \A t \in Found : emb.scoreMap[t] = Times(emb.sim[t], EmbeddingWeight)
====
